---- MODULE Spec2Model ----
(***************************************************************************)
(* oiplease: forward-auth gateway.  State machine of the /validate, /auth  *)
(* and /login handlers (validate.rs, auth.rs, login.rs) over the static    *)
(* configuration (config.rs), the session token (jwt.rs) and its cookie    *)
(* codec (jwtc.rs), and of the cached OIDC client (oidc.rs).               *)
(*                                                                         *)
(* The server keeps no per-session state: what a handler answers is a      *)
(* function of the request, the configuration, the clock values it reads,  *)
(* the cached client and the answers of the OIDC provider.  Requests are   *)
(* served concurrently: a handler that waits for the provider or for the   *)
(* lock of the cached client is a task, and other requests are served      *)
(* while it waits.  The step that ends a request records the request in    *)
(* req and the response, as it leaves the hook and the plugins of the       *)
(* routes, in res.                                                         *)
(*                                                                         *)
(* Specifications:                                                         *)
(*   Spec          the server with the default lifetime of the client:     *)
(*                 every request and provider answer of the model, and     *)
(*                 other requests served while one waits                   *)
(*   SpecRenewal   the same in deployments that renew sessions, with       *)
(*                 renewal thresholds of either sign                       *)
(*   SpecPolicy    Config::customized / uncustomized over rule lists       *)
(*   SpecCodec     compress / decompress over the text of tokens           *)
(*   SpecOidc      the server in deployments whose client expires:         *)
(*                 requests that wait for the RwLock of the cached client, *)
(*                 for discovery and for the provider                      *)
(*   SpecOidcLive  SpecOidc with the fairness of the runtime and of a      *)
(*                 provider whose discovery succeeds in the end            *)
(***************************************************************************)
EXTENDS Integers, Sequences, FiniteSets, TLC

VARIABLES
    cfg,    \* CONFIG (config.rs), loaded once and never changed
    clock,  \* Utc::now().timestamp(), seconds
    op,     \* "idle", or the handler whose response is in res
    req,    \* the request, the provider's answer and the clock values read
    res,    \* the response after the hook and the plugins of the routes
    cache,  \* OidcHandler.client: the deadline and the discovered client
    lock,   \* the RwLock around it: who holds it and who waits for it
    task    \* the requests that are being served, and where each one waits

oidcVars == <<cache, lock, task>>

vars == <<cfg, clock, op, req, res, cache, lock, task>>

----------------------------------------------------------------------------
(* Rust's Option and Result *)

None == {}
Some(x) == {x}
is_some(o) == o # {}
unwrap(o) == CHOOSE x \in o : TRUE

Ok(v) == [ok |-> TRUE, val |-> v]
Err(e) == [ok |-> FALSE, val |-> e]

EmptyMap == <<>>

Min(a, b) == IF a <= b THEN a ELSE b

----------------------------------------------------------------------------
(* Bounds of the model *)

\* largest login_cache_minutes, and the number of whole minutes the clock spans
MaxMinutes == 1

\* most bytes of the bodies whose compressed form a client presents
MaxBody == 3

\* requests that wait at the same time
MaxTasks == 2
\* largest oidc_refresh_time_sec of the deployments whose client expires
MaxRefresh == 1
\* longest list of customization rules in the policy resolver's inputs
MaxRules == 2

\* validate.rs:28 and :51, auth.rs:46: login_cache_minutes * 60
SecondsPerMinute == 60

\* the seconds past each whole minute at which the clock is looked at, and the
\* renewal thresholds (login_renew_seconds) of the model
Seconds == {0, 1}

Times == {m * SecondsPerMinute + d : m \in 0..MaxMinutes, d \in Seconds}

----------------------------------------------------------------------------
(* Strings.  A path is a sequence of characters (starts_with looks inside    *)
(* it); role names are compared by str's lexicographic order, given here for *)
(* the role names of the model.                                              *)

Roles == {"admin", "user"}
RoleRank == [admin |-> 1, user |-> 2]

starts_with(s, prefix) ==
    /\ Len(prefix) <= Len(s)
    /\ SubSeq(s, 1, Len(prefix)) = prefix

PathRoot == <<"/">>
PathAdmin == <<"/", "a">>
PathAdminX == <<"/", "a", "/", "x">>

----------------------------------------------------------------------------
(* config.rs *)

\* EndpointFilter; a compiled Regex is the set of strings it matches
AnyFilter ==
    [hostname |-> None, hostname_regex |-> None, path |-> None,
     path_prefix |-> None, path_regex |-> None]

\* EndpointFilter::matches without the path_prefix test
EndpointFilter_matches_any_prefix(filter, host, path) ==
    IF is_some(filter.hostname) /\ host # unwrap(filter.hostname) THEN FALSE
    ELSE IF is_some(filter.hostname_regex) /\ host \notin unwrap(filter.hostname_regex) THEN FALSE
    ELSE IF is_some(filter.path) /\ unwrap(filter.path) # path THEN FALSE
    ELSE IF is_some(filter.path_regex) /\ path \notin unwrap(filter.path_regex) THEN FALSE
    ELSE TRUE

\* EndpointFilter::matches
EndpointFilter_matches(filter, host, path) ==
    IF is_some(filter.hostname) /\ host # unwrap(filter.hostname) THEN FALSE
    ELSE IF is_some(filter.hostname_regex) /\ host \notin unwrap(filter.hostname_regex) THEN FALSE
    ELSE IF is_some(filter.path) /\ unwrap(filter.path) # path THEN FALSE
    ELSE IF is_some(filter.path_prefix) /\ ~starts_with(path, unwrap(filter.path_prefix)) THEN FALSE
    ELSE IF is_some(filter.path_regex) /\ path \notin unwrap(filter.path_regex) THEN FALSE
    ELSE TRUE

\* Vec::sort on role names (insertion into a sorted sequence, for each element)
RECURSIVE sort_insert(_, _)
sort_insert(sorted, x) ==
    IF sorted = <<>> THEN <<x>>
    ELSE IF RoleRank[x] <= RoleRank[Head(sorted)] THEN <<x>> \o sorted
    ELSE <<Head(sorted)>> \o sort_insert(Tail(sorted), x)

RECURSIVE sort(_)
sort(v) == IF v = <<>> THEN <<>> ELSE sort_insert(sort(Tail(v)), Head(v))

\* Vec::dedup: removes consecutive repeated elements
RECURSIVE dedup(_)
dedup(v) ==
    IF Len(v) <= 1 THEN v
    ELSE IF v[1] = v[2] THEN dedup(Tail(v))
    ELSE <<v[1]>> \o dedup(Tail(v))

\* Config::uncustomized
Config_uncustomized(c) ==
    [required_roles |-> c.required_roles, bypass |-> FALSE]

\* the loop of Config::customized over customizations[i..]
RECURSIVE customize_from(_, _, _, _)
customize_from(customs, host, path, acc) ==
    IF customs = <<>> THEN acc
    ELSE LET custom == Head(customs)
             hit == EndpointFilter_matches(custom.filter, host, path)
             next == IF hit
                     THEN [required_roles |-> acc.required_roles \o custom.config.required_roles,
                           bypass |-> IF custom.config.bypass THEN TRUE ELSE acc.bypass]
                     ELSE acc
         IN customize_from(Tail(customs), host, path, next)

\* Config::customized without the sort before the dedup
Config_customized_unsorted(c, host, path) ==
    LET merged == customize_from(c.customizations, host, path,
                                 [required_roles |-> c.required_roles, bypass |-> FALSE])
    IN [required_roles |-> dedup(merged.required_roles),
        bypass |-> merged.bypass]

\* Config::customized
Config_customized(c, host, path) ==
    LET merged == customize_from(c.customizations, host, path,
                                 [required_roles |-> c.required_roles, bypass |-> FALSE])
    IN [required_roles |-> dedup(sort(merged.required_roles)),
        bypass |-> merged.bypass]

\* the customization rules of the modelled deployment
Customizations ==
    << [filter |-> [AnyFilter EXCEPT !.path_prefix = Some(PathAdmin)],
        config |-> [required_roles |-> <<>>, bypass |-> TRUE]],
       [filter |-> [AnyFilter EXCEPT !.hostname_regex = Some({"a.test", "b.test"})],
        config |-> [required_roles |-> <<"user">>, bypass |-> FALSE]],
       [filter |-> [AnyFilter EXCEPT !.hostname = Some("b.test")],
        config |-> [required_roles |-> <<"user", "admin", "user">>, bypass |-> FALSE]] >>

PublicUrl == "https://auth.test/"
CookieName == "oiplease"
SuccessHeader == "x-auth"

\* default_refresh_time_sec
DefaultRefreshTime == 3600

Configs ==
    [public : {PublicUrl},
     cookie_name : {CookieName},
     success_header : {SuccessHeader},
     oidc_refresh_time_sec : {DefaultRefreshTime},
     login_renew_seconds : Seconds,
     login_cache_minutes : 0..MaxMinutes,
     refresh_tokens : BOOLEAN,
     honor_token_expiry : BOOLEAN,
     required_roles : {<<>>},
     header_claims : {("x-email" :> "email")},
     customizations : {Customizations}]

\* config.rs:25-26: login_renew_seconds is an i64 that nothing validates, so
\* a deployment may configure a threshold below zero
SignedSeconds == {-1} \cup Seconds

\* renewing deployments with every threshold of SignedSeconds
RenewingConfigs ==
    [public : {PublicUrl},
     cookie_name : {CookieName},
     success_header : {SuccessHeader},
     oidc_refresh_time_sec : {DefaultRefreshTime},
     login_renew_seconds : SignedSeconds,
     login_cache_minutes : 0..MaxMinutes,
     refresh_tokens : {TRUE},
     honor_token_expiry : {FALSE},
     required_roles : {<<>>},
     header_claims : {("x-email" :> "email")},
     customizations : {Customizations}]

----------------------------------------------------------------------------
(* jwt.rs: the session (JwtClaims) and its signed token *)

\* openid::Bearer as the handlers use it
Bearer(access_token, refresh_token, expires, id_token) ==
    [access_token |-> access_token, refresh_token |-> refresh_token,
     expires |-> expires, id_token |-> id_token]

\* struct JwtClaims; roles is kept as the set of its elements (the handlers
\* copy it and test membership only)
JwtClaims(issuer, claims, iss, exp, roles, bearer) ==
    [issuer |-> issuer, claims |-> claims, iss |-> iss, exp |-> exp,
     roles |-> roles, bearer |-> bearer]

\* has_required_roles with any in place of all
has_any_required_role(claims, roles) ==
    \E i \in 1..Len(roles) : roles[i] \in claims.roles

\* JwtClaims::has_required_roles
has_required_roles(claims, roles) ==
    \A i \in 1..Len(roles) : roles[i] \in claims.roles

\* The HMAC key of the deployment, and a key the deployment does not hold
JWT_KEY == "jwt_key"

\* JwtClaims::sign: header.payload.signature, the signature made with JWT_KEY.
\* A token is the payload it carries and the key its signature verifies under.
JwtClaims_sign(claims) == Ok([key |-> JWT_KEY, payload |-> claims])

\* JwtClaims::validate: verify_with_key(JWT_KEY), then the payload
JwtClaims_validate(token) ==
    IF token.key = JWT_KEY THEN Ok(token.payload) ELSE Err("invalid signature")

----------------------------------------------------------------------------
(* jwtc.rs: the cookie value.  A value is either not decodable (base64url  *)
(* or inflate fails) or the compressed form of a token.                    *)

\* compress
compress(jwt) == Ok([decodable |-> TRUE, token |-> jwt])

\* decompress
decompress(value) ==
    IF value.decodable THEN Ok(value.token) ELSE Err("malformed")

----------------------------------------------------------------------------
(* jwtc.rs byte for byte.  A string is the sequence of its characters'     *)
(* code points, a byte string a sequence of values 0..255.                 *)

\* jwtc.rs:13, the separator of the token's segments ('.')
Dot == 46
\* jwtc.rs:16 and :30, the separator of the compressed body (b'\n')
Newline == 10
\* the padding character '=', which URL_SAFE_NO_PAD does not take (jwtc.rs:14)
Pad == 61
\* the first byte (CMF) of the zlib stream that ZlibEncoder writes
ZlibHeader == 120
\* the bytes of a signature of JWT_KEY, an HMAC-SHA256 (config.rs:185)
SignatureBytes == 32

\* the function f, every value worked out once: of [i \in S |-> e] as it
\* stands, e is worked out anew whenever a value is asked for
Table(f) == f @@ <<>>

\* the URL-safe alphabet: A-Z a-z 0-9 - _
Base64Alphabet ==
    [i \in 1..64 |-> IF i <= 26 THEN 64 + i
                     ELSE IF i <= 52 THEN 70 + i
                     ELSE IF i <= 62 THEN i - 5
                     ELSE IF i = 63 THEN 45 ELSE 95]

RECURSIVE ValueOf(_)
ValueOf(bits) ==
    IF bits = <<>> THEN 0
    ELSE 2 * ValueOf(SubSeq(bits, 1, Len(bits) - 1)) + bits[Len(bits)]

\* the sequences of seqs one after the other
RECURSIVE Flatten(_)
Flatten(seqs) ==
    IF Len(seqs) = 0 THEN <<>>
    ELSE IF Len(seqs) = 1 THEN seqs[1]
    ELSE Flatten(SubSeq(seqs, 1, Len(seqs) \div 2))
            \o Flatten(SubSeq(seqs, Len(seqs) \div 2 + 1, Len(seqs)))

\* URL_SAFE_NO_PAD.encode
base64_encode(bytes) ==
    LET \* bit j of the bytes, the highest bit of a byte first, and zero
        \* after the last byte
        bit(j) == IF j > 8 * Len(bytes) THEN 0
                  ELSE (bytes[(j - 1) \div 8 + 1] \div 2^(7 - ((j - 1) % 8))) % 2
    IN [i \in 1..((8 * Len(bytes) + 5) \div 6) |->
           Base64Alphabet[ValueOf([k \in 1..6 |-> bit(6 * (i - 1) + k)]) + 1]]

\* URL_SAFE_NO_PAD.decode: a character outside the alphabet, a length of
\* 4k + 1, padding and set bits after the last whole byte are errors.  A
\* '=' counts as padding in the third and fourth place of the last group of
\* four with nothing but '=' after it, and as a character outside the
\* alphabet anywhere else.
base64_decode(text) ==
    LET \* the whole bytes of these six-bit values
        bytes_of(sextets) ==
            LET bit(j) == (sextets[(j - 1) \div 6 + 1] \div 2^(5 - ((j - 1) % 6))) % 2
            IN IF \E j \in (8 * ((6 * Len(sextets)) \div 8) + 1)..(6 * Len(sextets)) :
                     bit(j) = 1
               THEN Err("InvalidLastSymbol")
               ELSE Ok([i \in 1..((6 * Len(sextets)) \div 8) |->
                           ValueOf([k \in 1..8 |-> bit(8 * (i - 1) + k)])])
        \* the place before the last group of four, or of fewer
        last_group == Len(text) - 1 - ((Len(text) - 1) % 4)
        padding(i) ==
            /\ text[i] = Pad
            /\ i >= last_group + 3
            /\ \A j \in i..Len(text) : text[j] = Pad
        symbol(i) == \E j \in 1..64 : Base64Alphabet[j] = text[i]
    IN IF \E i \in 1..Len(text) : ~symbol(i) /\ ~padding(i) THEN Err("InvalidByte")
       ELSE IF Len(text) % 4 = 1 THEN Err("InvalidLength")
       ELSE IF text # <<>> /\ text[Len(text)] = Pad THEN Err("InvalidPadding")
       ELSE \* the six-bit values of the characters
            bytes_of([i \in 1..Len(text) |->
                         (CHOOSE j \in 1..64 : Base64Alphabet[j] = text[i]) - 1])

\* str::trim: the text between its first and its last character that is no
\* white space
trim(text) ==
    LET \* the characters with the property White_Space: tab to carriage
        \* return, space, next line, no-break space, ogham space mark, en
        \* quad to hair space, line and paragraph separator, narrow no-break
        \* space, medium mathematical space, ideographic space
        white_space == (9..13) \cup {32, 133, 160, 5760} \cup (8192..8202)
                          \cup {8232, 8233, 8239, 8287, 12288}
    IN IF \A i \in 1..Len(text) : text[i] \in white_space THEN <<>>
       ELSE SubSeq(text,
                   CHOOSE i \in 1..Len(text) :
                      /\ text[i] \notin white_space
                      /\ \A j \in 1..(i - 1) : text[j] \in white_space,
                   CHOOSE i \in 1..Len(text) :
                      /\ text[i] \notin white_space
                      /\ \A j \in (i + 1)..Len(text) : text[j] \in white_space)

\* slice::splitn(n, |x| x == sep): at most n pieces, the last one keeps the
\* separators that remain
splitn(n, s, sep) ==
    LET \* the places of the separators that cut
        cuts(at) == SubSeq(at, 1, Min(n - 1, Len(at)))
        places == {i \in 1..Len(s) : s[i] = sep}
        sorted(at) == [k \in 1..Cardinality(at) |->
                          CHOOSE i \in at : Cardinality({j \in at : j < i}) = k - 1]
        pieces(cut) ==
            [k \in 1..(Len(cut) + 1) |->
                SubSeq(s, IF k = 1 THEN 1 ELSE cut[k - 1] + 1,
                       IF k > Len(cut) THEN Len(s) ELSE cut[k] - 1)]
    IN pieces(cuts(sorted(places)))

\* str::split('.'): a piece for every separator, and one more
split(s, sep) == splitn(Len(s) + 1, s, sep)

\* [T]::join(sep)
join(pieces, sep) ==
    Flatten([i \in 1..Len(pieces) |-> IF i = 1 THEN pieces[i] ELSE <<sep>> \o pieces[i]])

\* n bits from pos on as a number, lowest bit first, as deflate packs numbers
take(bits, pos, n) ==
    LET RECURSIVE value(_)
        value(k) == IF k > n THEN 0 ELSE bits[pos + k] + 2 * value(k + 1)
    IN value(1)

\* deflate (RFC 1951, 3.2.5 - 3.2.7): base and extra bits of the length
\* codes 257..285 and of the distance codes 0..29, the order in which a
\* dynamic block lists the lengths of its code length codes, and the code
\* lengths of the fixed codes
DeflateTables ==
    [length_base |->
        <<3, 4, 5, 6, 7, 8, 9, 10, 11, 13, 15, 17, 19, 23, 27, 31, 35, 43, 51, 59,
          67, 83, 99, 115, 131, 163, 195, 227, 258>>,
     length_extra |->
        <<0, 0, 0, 0, 0, 0, 0, 0, 1, 1, 1, 1, 2, 2, 2, 2, 3, 3, 3, 3,
          4, 4, 4, 4, 5, 5, 5, 5, 0>>,
     dist_base |->
        <<1, 2, 3, 4, 5, 7, 9, 13, 17, 25, 33, 49, 65, 97, 129, 193, 257, 385, 513,
          769, 1025, 1537, 2049, 3073, 4097, 6145, 8193, 12289, 16385, 24577>>,
     dist_extra |->
        <<0, 0, 0, 0, 1, 1, 2, 2, 3, 3, 4, 4, 5, 5, 6, 6, 7, 7, 8, 8,
          9, 9, 10, 10, 11, 11, 12, 12, 13, 13>>,
     code_length_order |->
        <<16, 17, 18, 0, 8, 7, 9, 6, 10, 5, 11, 4, 12, 3, 13, 2, 14, 1, 15>>,
     fixed_lit |->
        [i \in 1..288 |-> IF i <= 144 THEN 8 ELSE IF i <= 256 THEN 9
                          ELSE IF i <= 280 THEN 7 ELSE 8],
     fixed_dist |-> [i \in 1..32 |-> 5]]

\* The match finder of the compressor at Compression::best(): the longest
\* repetition at p of bytes before p, longer than the one in hand (held, of
\* the byte before; 2 when there is none), the nearest of several.  Looked
\* at are the places whose three bytes have the hash of the three bytes at
\* p, the nearest first and never the first byte of the data (its place
\* marks the end of a chain); a place can only do better when it agrees with
\* p in the last byte of the match in hand and the byte after.  A probe is
\* spent on every place that does and on every three others in a row, and
\* the search ends with the probes.
find_match(s, hashes, p, held) ==
    LET max_len == Min(Len(s) - p + 1, 258)
        \* how many bytes at p repeat the bytes at q: at least lo, at most hi
        RECURSIVE common(_, _, _)
        common(q, lo, hi) ==
            IF lo = hi THEN lo
            ELSE IF \A i \in lo..((lo + hi + 1) \div 2 - 1) : s[q + i] = s[p + i]
            THEN common(q, (lo + hi + 1) \div 2, hi)
            ELSE common(q, lo, (lo + hi + 1) \div 2 - 1)
        better(found, q, len) ==
            IF len > found.len
            THEN [found EXCEPT !.len = len, !.dist = p - q, !.done = (len = max_len)]
            ELSE found
        looked_at(found, q) ==
            IF s[q + found.len - 1] # s[p + found.len - 1] \/ s[q + found.len] # s[p + found.len]
            THEN [found EXCEPT !.passed = (@ + 1) % 3]
            ELSE better([found EXCEPT !.passed = 0], q, common(q, 0, max_len))
        probe(found, q) ==
            IF found.done \/ hashes[q] # hashes[p] THEN found
            ELSE IF found.passed > 0 THEN looked_at(found, q)
            ELSE IF found.probes = 1 THEN [found EXCEPT !.done = TRUE]
            ELSE looked_at([found EXCEPT !.probes = @ - 1], q)
        \* the places from p - lo back to p - hi, one after the other
        RECURSIVE search(_, _, _)
        search(found, lo, hi) ==
            IF lo > hi \/ found.done THEN found
            ELSE IF lo = hi THEN probe(found, p - lo)
            ELSE search(search(found, lo, (lo + hi) \div 2), (lo + hi) \div 2 + 1, hi)
        result(found) == [len |-> found.len, dist |-> found.dist]
    IN IF max_len <= held THEN [len |-> held, dist |-> 0]
       ELSE result(search([len |-> held, dist |-> 0, done |-> FALSE, passed |-> 0,
                           probes |-> IF held >= 32 THEN 65 ELSE 257],
                          1, p - 2))

\* Compression::best(): matches of three bytes and more, chosen lazily: a
\* match is held back one byte and dropped for a literal when the next
\* position has a longer one.  held is the match held back, with the byte it
\* starts at.  A match of three bytes from 8192 bytes back or more is passed
\* over.
lz_parse(s) ==
    LET \* the hash of three bytes: b0 << 10 ^ b1 << 5 ^ b2, of fifteen bits
        hash(b0, b1, b2) ==
            ValueOf([k \in 1..15 |->
                        (((b0 * 1024) \div 2^(15 - k)) + ((b1 * 32) \div 2^(15 - k))
                            + (b2 \div 2^(15 - k))) % 2])
        Literal(byte) == [lit |-> byte, len |-> 0, dist |-> 0]
        Match(found) == [lit |-> 0, len |-> found.len, dist |-> found.dist]
        NoMatch == [lit |-> 0, len |-> 0, dist |-> 0]
        Held(byte, found) == [lit |-> byte, len |-> found.len, dist |-> found.dist]
        near(found) == IF found.len = 3 /\ found.dist >= 8192
                       THEN [len |-> 0, dist |-> 0] ELSE found
        parsed(at, p, found) ==
            IF at.held.len > 0
            THEN IF found.len > at.held.len
                 THEN IF found.len >= 128
                      THEN [pos |-> p + found.len, held |-> NoMatch,
                            tokens |-> at.tokens \o <<Literal(at.held.lit), Match(found)>>]
                      ELSE [pos |-> p + 1, held |-> Held(s[p], found),
                            tokens |-> Append(at.tokens, Literal(at.held.lit))]
                 ELSE [pos |-> p + at.held.len - 1, held |-> NoMatch,
                       tokens |-> Append(at.tokens, Match(at.held))]
            ELSE IF found.dist = 0
            THEN [pos |-> p + 1, held |-> NoMatch, tokens |-> Append(at.tokens, Literal(s[p]))]
            ELSE IF found.len >= 128
            THEN [pos |-> p + found.len, held |-> NoMatch,
                  tokens |-> Append(at.tokens, Match(found))]
            ELSE [pos |-> p + 1, held |-> Held(s[p], found), tokens |-> at.tokens]
        \* position after position to the end of s, in most steps at most
        RECURSIVE parse(_, _, _)
        parse(hashes, at, most) ==
            IF most = 0 \/ at.pos > Len(s) THEN at
            ELSE IF most = 1
            THEN parsed(at, at.pos,
                        near(find_match(s, hashes, at.pos,
                                        IF at.held.len > 0 THEN at.held.len ELSE 2)))
            ELSE parse(hashes, parse(hashes, at, most \div 2), most - most \div 2)
        begun(hashes) ==
            parse(hashes, [pos |-> 1, held |-> NoMatch, tokens |-> <<>>], Len(s))
    IN begun(Table([i \in 1..(Len(s) - 2) |-> hash(s[i], s[i + 1], s[i + 2])])).tokens

\* The code lengths of a Huffman code, from the frequencies of the symbols
\* sorted in rising order (Moffat and Katajainen's computation in place, on
\* A[0] .. A[n - 1]): two at a time the least of the leaves and of the nodes
\* made so far become a node, a node only when it is less than the leaf;
\* then the depths of the nodes, and from them those of the leaves.
calculate_minimum_redundancy(keys) ==
    LET n == Len(keys)
        \* one of the two picks of a step: the node at root or the leaf at
        \* leaf is added to A[next]; first: A[next] begins with it
        pick(at, first, node) ==
            IF node
            THEN [at EXCEPT !.A = [at.A EXCEPT ![at.next] = ((IF first THEN 0
                                                              ELSE at.A[at.next])
                                                                + at.A[at.root]) % 65536,
                                               ![at.root] = at.next],
                            !.root = @ + 1]
            ELSE [at EXCEPT !.A = [at.A EXCEPT ![at.next] = ((IF first THEN 0
                                                              ELSE at.A[at.next])
                                                                + at.A[at.leaf]) % 65536],
                            !.leaf = @ + 1]
        second(at) ==
            pick(at, FALSE,
                 at.leaf >= n \/ (at.root < at.next /\ at.A[at.root] < at.A[at.leaf]))
        joined(at) ==
            [second(pick(at, TRUE, at.leaf >= n \/ at.A[at.root] < at.A[at.leaf]))
                EXCEPT !.next = @ + 1]
        \* node after node up to the last, n - 2
        RECURSIVE nodes(_, _)
        nodes(at, most) ==
            IF most = 0 \/ at.next > n - 2 THEN at
            ELSE IF most = 1 THEN joined(at)
            ELSE nodes(nodes(at, most \div 2), most - most \div 2)
        \* the depth of the nodes, the last made first
        RECURSIVE deepened(_, _)
        deepened(at, most) ==
            IF most = 0 \/ at.next < 0 THEN at
            ELSE IF most = 1
            THEN [A |-> [at.A EXCEPT ![at.next] = at.A[at.A[at.next]] + 1],
                  next |-> at.next - 1]
            ELSE deepened(deepened(at, most \div 2), most - most \div 2)
        depths(A) == deepened([A |-> [A EXCEPT ![n - 2] = 0], next |-> n - 3], n - 2).A
        \* the nodes of depth at.dpth from root down
        run(at) ==
            CHOOSE k \in 0..(at.root + 1) :
               /\ \A j \in 0..(k - 1) : at.A[at.root - j] = at.dpth
               /\ (k = at.root + 1 \/ at.A[at.root - k] # at.dpth)
        \* avbl places at depth at.dpth: used of them are nodes, the others
        \* are leaves, the most frequent of those without a depth
        level(at, used) ==
            [A |-> Table([i \in 0..(n - 1) |->
                             IF i <= at.next /\ i > at.next - (at.avbl - used) THEN at.dpth
                             ELSE at.A[i]]),
             avbl |-> 2 * used, root |-> at.root - used,
             next |-> at.next - (at.avbl - used), dpth |-> at.dpth + 1]
        \* level after level while places are left, most levels at most
        RECURSIVE levels(_, _)
        levels(at, most) ==
            IF most = 0 \/ at.avbl <= 0 THEN at
            ELSE IF most = 1 THEN level(at, run(at))
            ELSE levels(levels(at, most \div 2), most - most \div 2)
        leaves(A) ==
            levels([A |-> A, avbl |-> 1, root |-> n - 2, next |-> n - 1, dpth |-> 0],
                   n + 1).A
        from_zero(A) == Table([i \in 1..n |-> A[i - 1]])
    IN IF n = 0 THEN <<>>
       ELSE IF n = 1 THEN <<1>>
       ELSE from_zero(leaves(depths(
               nodes([A |-> [i \in 0..(n - 1) |-> IF i = 0 THEN keys[1] + keys[2]
                                                  ELSE keys[i + 1]],
                      root |-> 0, leaf |-> 2, next |-> 1],
                     n - 2).A)))

\* The code lengths that the compressor gives the symbols of a block
\* (symbol i - 1 has count[i]), none longer than limit: those of a Huffman
\* code, the symbols sorted by count and by symbol among equal counts; codes
\* longer than limit are cut to it and, while the code is over-full, one code
\* of the limit is dropped and one shorter code made one bit longer; the
\* lengths then go to the symbols, the shortest to the most frequent.
optimize_table(count, limit) ==
    LET \* the place of a used symbol among the used symbols, sorted
        place(i) ==
            1 + Cardinality({j \in 1..Len(count) :
                                /\ count[j] > 0
                                /\ (count[j] < count[i] \/ (count[j] = count[i] /\ j < i))})
        RECURSIVE sum(_, _, _)
        sum(f, lo, hi) == IF lo > hi THEN 0 ELSE f[lo] + sum(f, lo + 1, hi)
        cut(num_codes) ==
            [l \in 1..32 |-> IF l < limit THEN num_codes[l]
                             ELSE IF l = limit THEN sum(num_codes, limit, 32) ELSE 0]
        total(num_codes) == sum([l \in 1..limit |-> num_codes[l] * 2^(limit - l)], 1, limit)
        longest_below(num_codes) ==
            CHOOSE i \in 1..(limit - 1) :
               num_codes[i] > 0 /\ \A j \in (i + 1)..(limit - 1) : num_codes[j] = 0
        lengthened(num_codes, i) ==
            [num_codes EXCEPT ![i] = @ - 1, ![i + 1] = @ + 2]
        dropped(num_codes) ==
            IF \E i \in 1..(limit - 1) : num_codes[i] > 0
            THEN lengthened(num_codes, longest_below(num_codes))
            ELSE num_codes
        one_less(num_codes) == dropped([num_codes EXCEPT ![limit] = @ - 1])
        RECURSIVE fewer(_, _)
        fewer(num_codes, most) ==
            IF most <= 0 \/ total(num_codes) = 2^limit THEN num_codes
            ELSE IF most = 1 THEN one_less(num_codes)
            ELSE fewer(fewer(num_codes, most \div 2), most - most \div 2)
        enforce_max_code_size(num_codes, used) ==
            IF used <= 1 THEN num_codes
            ELSE fewer(cut(num_codes), total(cut(num_codes)) - 2^limit)
        \* the length of the symbol that is the e-th most frequent
        length_of(num_codes, e) ==
            CHOOSE l \in 1..limit :
               sum(num_codes, 1, l) >= e /\ sum(num_codes, 1, l - 1) < e
        sizes(places, used, num_codes) ==
            Table([i \in 1..Len(count) |->
                      IF count[i] = 0 THEN 0
                      ELSE length_of(num_codes, used - places[i] + 1)])
        counted(places, used, lengths) ==
            sizes(places, used,
                  enforce_max_code_size(
                      Table([l \in 1..32 |-> Cardinality({k \in 1..used : lengths[k] = l})]),
                      used))
        sorted(places, used) ==
            counted(places, used,
                    calculate_minimum_redundancy(
                        Table([k \in 1..used |->
                                  count[CHOOSE i \in 1..Len(count) : places[i] = k]])))
        placed(places) == sorted(places, Cardinality({i \in 1..Len(count) : count[i] > 0}))
    IN placed(Table([i \in 1..Len(count) |-> IF count[i] = 0 THEN 0 ELSE place(i)]))

\* the codes of a Huffman code with these code lengths (RFC 1951, 3.2.2), as
\* the bits that go out: the codes of one length are consecutive, in symbol
\* order, and a code goes out highest bit first
huffman_codes(code_sizes) ==
    LET code_count(n) == Cardinality({i \in 1..Len(code_sizes) : code_sizes[i] = n})
        RECURSIVE next_code(_)
        next_code(n) == IF n = 1 THEN 0 ELSE 2 * (next_code(n - 1) + code_count(n - 1))
        \* the bits of a code, the highest first
        code_bits(value, width) == [i \in 1..width |-> (value \div 2^(width - i)) % 2]
        coded(first) ==
            Table([i \in 1..Len(code_sizes) |->
                      IF code_sizes[i] = 0 THEN <<>>
                      ELSE code_bits(first[code_sizes[i]]
                                        + Cardinality({j \in 1..(i - 1) :
                                                          code_sizes[j] = code_sizes[i]}),
                                     code_sizes[i])])
    IN coded(Table([n \in 1..15 |-> next_code(n)]))

\* A Huffman code is given by the lengths of its codes (RFC 1951, 3.2.2):
\* the codes of one length are consecutive, in symbol order.  For every
\* length the number of codes, the first code, and the symbols in order;
\* the number of symbols that have a code, and whether the codes leave no
\* bits without a meaning (complete).
huffman_table(lengths) ==
    LET of_length(n) == {i \in 1..Len(lengths) : lengths[i] = n}
        in_order(these) ==
            Table([k \in 1..Cardinality(these) |->
                      (CHOOSE i \in these : Cardinality({j \in these : j < i}) = k - 1) - 1])
        RECURSIVE first_code(_, _)
        first_code(count, n) ==
            IF n = 1 THEN 0 ELSE 2 * (first_code(count, n - 1) + count[n - 1])
        RECURSIVE space(_, _)
        space(count, n) == IF n = 0 THEN 0 ELSE space(count, n - 1) + count[n] * 2^(15 - n)
        table(count) ==
            [count |-> count,
             first |-> Table([n \in 1..15 |-> first_code(count, n)]),
             symbols |-> Table([n \in 1..15 |-> in_order(of_length(n))]),
             used |-> Cardinality({i \in 1..Len(lengths) : lengths[i] > 0}),
             complete |-> space(count, 15) = 2^15]
    IN table(Table([n \in 1..15 |-> Cardinality(of_length(n))]))

\* the fixed code: its codes, to deflate with, and its tables, to inflate with
StaticCode ==
    [lit |-> huffman_codes(DeflateTables.fixed_lit),
     dist |-> huffman_codes(DeflateTables.fixed_dist),
     lit_table |-> huffman_table(DeflateTables.fixed_lit),
     dist_table |-> huffman_table(DeflateTables.fixed_dist)]

\* the bits of a value, least significant first
LsbBits(value, width) == [i \in 1..width |-> (value \div 2^(i - 1)) % 2]

\* The head of a block with codes of its own: the type, the numbers of
\* literal/length, distance and code length codes, the lengths of the code
\* length codes, and with these the lengths of the other codes, runs of
\* three and more equal lengths packed (16: the last length 3 to 6 times
\* more, 17: 3 to 10 zeros, 18: 11 to 138 zeros).
start_dynamic_block(lit_sizes, dist_sizes) ==
    LET last_used(code_sizes, least, most) ==
            IF \A m \in (least + 1)..most : code_sizes[m] = 0 THEN least
            ELSE CHOOSE m \in (least + 1)..most :
                    code_sizes[m] # 0 /\ \A k \in (m + 1)..most : code_sizes[k] = 0
        Packed(sym, extra) == [sym |-> sym, extra |-> extra]
        prev_code_size(rle) ==
            IF rle.repeat_count = 0 THEN rle
            ELSE IF rle.repeat_count < 3
            THEN [rle EXCEPT !.repeat_count = 0,
                             !.packed = @ \o [j \in 1..rle.repeat_count |->
                                                 Packed(rle.prev, 0)]]
            ELSE [rle EXCEPT !.repeat_count = 0,
                             !.packed = Append(@, Packed(16, rle.repeat_count - 3))]
        zero_code_size(rle) ==
            IF rle.z_count = 0 THEN rle
            ELSE IF rle.z_count < 3
            THEN [rle EXCEPT !.z_count = 0,
                             !.packed = @ \o [j \in 1..rle.z_count |-> Packed(0, 0)]]
            ELSE IF rle.z_count <= 10
            THEN [rle EXCEPT !.z_count = 0, !.packed = Append(@, Packed(17, rle.z_count - 3))]
            ELSE [rle EXCEPT !.z_count = 0, !.packed = Append(@, Packed(18, rle.z_count - 11))]
        zero(rle) ==
            IF rle.z_count + 1 = 138 THEN zero_code_size([rle EXCEPT !.z_count = @ + 1])
            ELSE [rle EXCEPT !.z_count = @ + 1]
        other(rle, code_size) ==
            [rle EXCEPT !.packed = Append(@, Packed(code_size, 0))]
        again(rle) ==
            IF rle.repeat_count + 1 = 6 THEN prev_code_size([rle EXCEPT !.repeat_count = @ + 1])
            ELSE [rle EXCEPT !.repeat_count = @ + 1]
        nonzero(rle, code_size) ==
            IF code_size # rle.prev THEN other(prev_code_size(rle), code_size)
            ELSE again(rle)
        packing(rle, code_size) ==
            [(IF code_size = 0 THEN zero(prev_code_size(rle))
              ELSE nonzero(zero_code_size(rle), code_size)) EXCEPT !.prev = code_size]
        flushed(rle) == IF rle.repeat_count # 0 THEN prev_code_size(rle) ELSE zero_code_size(rle)
        \* size after size to the last
        RECURSIVE packed_sizes(_, _, _)
        packed_sizes(to_pack, rle, most) ==
            IF most = 0 \/ rle.next > Len(to_pack) THEN rle
            ELSE IF most = 1
            THEN [packing(rle, to_pack[rle.next]) EXCEPT !.next = @ + 1]
            ELSE packed_sizes(to_pack, packed_sizes(to_pack, rle, most \div 2),
                              most - most \div 2)
        pack(to_pack) ==
            flushed(packed_sizes(to_pack,
                                 [z_count |-> 0, repeat_count |-> 0, prev |-> 255,
                                  packed |-> <<>>, next |-> 1],
                                 Len(to_pack))).packed
        extra_bits(sym) == IF sym = 16 THEN 2 ELSE IF sym = 17 THEN 3 ELSE IF sym = 18 THEN 7 ELSE 0
        num_bit_lengths(sizes) ==
            IF \A m \in 5..19 : sizes[DeflateTables.code_length_order[m] + 1] = 0 THEN 4
            ELSE CHOOSE m \in 5..19 :
                    /\ sizes[DeflateTables.code_length_order[m] + 1] # 0
                    /\ \A k \in (m + 1)..19 : sizes[DeflateTables.code_length_order[k] + 1] = 0
        written(num_lit_codes, num_dist_codes, packed, sizes, codes, bit_lengths) ==
            <<0, 1>> \o LsbBits(num_lit_codes - 257, 5) \o LsbBits(num_dist_codes - 1, 5)
               \o LsbBits(bit_lengths - 4, 4)
               \o Flatten([m \in 1..bit_lengths |->
                              LsbBits(sizes[DeflateTables.code_length_order[m] + 1], 3)])
               \o Flatten([m \in 1..Len(packed) |->
                              codes[packed[m].sym + 1]
                                 \o LsbBits(packed[m].extra, extra_bits(packed[m].sym))])
        with_sizes(num_lit_codes, num_dist_codes, packed, sizes) ==
            written(num_lit_codes, num_dist_codes, packed, sizes, huffman_codes(sizes),
                    num_bit_lengths(sizes))
        with_packed(num_lit_codes, num_dist_codes, packed) ==
            with_sizes(num_lit_codes, num_dist_codes, packed,
                       optimize_table(Table([sym \in 1..19 |->
                                                Cardinality({m \in 1..Len(packed) :
                                                                packed[m].sym = sym - 1})]),
                                      7))
        with_numbers(num_lit_codes, num_dist_codes) ==
            with_packed(num_lit_codes, num_dist_codes,
                        pack(SubSeq(lit_sizes, 1, num_lit_codes)
                                \o SubSeq(dist_sizes, 1, num_dist_codes)))
    IN with_numbers(last_used(lit_sizes, 257, 286), last_used(dist_sizes, 1, 30))

\* The one block that the compressor makes of data of less than 31 KiB,
\* with its mark of being final.  Data of less than 48 bytes are coded with
\* the fixed codes, longer data with codes of their own; data of more than
\* 32 bytes are stored as they are when the coded block is no shorter.
deflate(body) ==
    LET \* the place of a length or distance in its table of bases
        code_index(base, v) ==
            CHOOSE k \in 1..Len(base) : base[k] <= v /\ (k = Len(base) \/ base[k + 1] > v)
        lit_symbol(t) ==
            IF t.len = 0 THEN t.lit ELSE 256 + code_index(DeflateTables.length_base, t.len)
        dist_symbol(t) == code_index(DeflateTables.dist_base, t.dist) - 1
        \* a match whose length has code 256 + k and whose distance code j - 1
        match_bits(codes, t, k, j) ==
            codes.lit[257 + k]
               \o LsbBits(t.len - DeflateTables.length_base[k], DeflateTables.length_extra[k])
               \o codes.dist[j]
               \o LsbBits(t.dist - DeflateTables.dist_base[j], DeflateTables.dist_extra[j])
        token_bits(codes, t) ==
            IF t.len = 0 THEN codes.lit[t.lit + 1]
            ELSE match_bits(codes, t, code_index(DeflateTables.length_base, t.len),
                            code_index(DeflateTables.dist_base, t.dist))
        \* compress_lz_codes: the tokens and the end-of-block code
        compress_lz_codes(codes, tokens) ==
            Flatten([i \in 1..Len(tokens) |-> token_bits(codes, tokens[i])]) \o codes.lit[257]
        \* how often the symbols occur; the end-of-block code occurs once
        lit_count(tokens) ==
            Table([sym \in 1..288 |->
                      IF sym = 257 THEN 1
                      ELSE Cardinality({i \in 1..Len(tokens) :
                                           lit_symbol(tokens[i]) = sym - 1})])
        dist_count(tokens) ==
            Table([sym \in 1..32 |->
                      Cardinality({i \in 1..Len(tokens) :
                                      tokens[i].len > 0 /\ dist_symbol(tokens[i]) = sym - 1})])
        dynamic_block(tokens, lit_sizes, dist_sizes) ==
            start_dynamic_block(lit_sizes, dist_sizes)
               \o compress_lz_codes([lit |-> huffman_codes(lit_sizes),
                                     dist |-> huffman_codes(dist_sizes)], tokens)
        compress_block(tokens, static) ==
            IF static THEN <<1, 0>> \o compress_lz_codes(StaticCode, tokens)
            ELSE dynamic_block(tokens, optimize_table(lit_count(tokens), 15),
                               optimize_table(dist_count(tokens), 15))
        bytes_of(padded) == [i \in 1..(Len(padded) \div 8) |-> take(padded, 8 * i - 8, 8)]
        \* zeros fill the last byte
        packed(bits) == bytes_of(bits \o [i \in 1..((8 - (Len(bits) % 8)) % 8) |-> 0])
        stored == <<1, 0, 0, 0, 0, 0, 0, 0>> \o LsbBits(Len(body), 16)
                     \o LsbBits(65535 - Len(body), 16)
                     \o Flatten([i \in 1..Len(body) |-> LsbBits(body[i], 8)])
        \* flush_block: the block is stored when the whole bytes of the
        \* coded block and one more are no fewer than the data
        flush_block(block) ==
            IF Len(body) > 32 /\ (1 + Len(block)) \div 8 + 1 >= Len(body)
            THEN packed(stored)
            ELSE packed(<<1>> \o block)
    IN flush_block(compress_block(lz_parse(body), Len(body) < 48))

\* Adler-32 (RFC 1950): the sum of the bytes and one, and the sum of these
\* sums after every byte, both modulo 65521; four bytes, high byte first
adler32(s) ==
    LET \* the sum modulo 65521 of the bytes lo..hi, each taken as often as
        \* the running sum that holds it is added to the second sum when
        \* weighted
        RECURSIVE adler_sum(_, _, _)
        adler_sum(lo, hi, weighted) ==
            IF lo > hi THEN 0
            ELSE IF lo = hi THEN (s[lo] * (IF weighted THEN Len(s) - lo + 1 ELSE 1)) % 65521
            ELSE (adler_sum(lo, (lo + hi) \div 2, weighted)
                    + adler_sum((lo + hi) \div 2 + 1, hi, weighted)) % 65521
        trailer(a, b) == <<b \div 256, b % 256, a \div 256, a % 256>>
    IN trailer((1 + adler_sum(1, Len(s), FALSE)) % 65521,
               (Len(s) + adler_sum(1, Len(s), TRUE)) % 65521)

\* ZlibEncoder::new(vec![], Compression::best()), write_all, finish: the
\* two header bytes, the deflated data and the checksum of the data
zlib_encode(body) == <<ZlibHeader, 218>> \o deflate(body) \o adler32(body)

\* inflate keeps its place in the bits, what it has written, and how it
\* goes on: "symbols" inside a block, "more" between blocks, "end" after the
\* last block, "truncated" when the bits run out, "corrupt" when they make
\* no sense
Inflating(status, pos, out) == [status |-> status, pos |-> pos, out |-> out]

\* The symbol whose code is the l bits from pos on, or l + 1, and so on.
\* Bits that are no code are looked up as well.  The decoder's table of
\* ten bits answers "one bit, symbol 286" wherever no code has been entered,
\* and a longer code hangs below the table in a tree whose empty places
\* answer symbol 0.  Only a code of no symbol or of one is let through
\* with such places: its one code is all zeros, a one among the first ten
\* bits gives symbol 286, which no block accepts, and a one after them
\* gives symbol 0 with the bits up to it.  Bits that end before they settle
\* a symbol leave the decoder waiting.
RECURSIVE huffman_symbol(_, _, _, _)
huffman_symbol(table, bits, pos, l) ==
    LET \* k is the place of the l bits among the codes of l bits
        decoded(k) ==
            IF k >= 0 /\ k < table.count[l]
            THEN [status |-> "more", sym |-> table.symbols[l][k + 1], pos |-> pos + l]
            ELSE huffman_symbol(table, bits, pos, l + 1)
        \* bit l of a code of at most one symbol
        lonely(bit) ==
            IF bit = 1
            THEN IF l <= 10 THEN [status |-> "more", sym |-> 286, pos |-> pos + 1]
                 ELSE [status |-> "more", sym |-> 0, pos |-> pos + l]
            ELSE IF table.used = 0 THEN [status |-> "more", sym |-> 286, pos |-> pos + 1]
            ELSE decoded(0)
    IN IF l > 15 THEN [status |-> "corrupt", sym |-> 0, pos |-> pos]
       ELSE IF pos + l > Len(bits) THEN [status |-> "truncated", sym |-> 0, pos |-> pos]
       ELSE IF table.used <= 1 THEN lonely(bits[pos + l])
       ELSE decoded(ValueOf(SubSeq(bits, pos + 1, pos + l)) - table.first[l])

\* the symbols of a block up to its end-of-block symbol, read with the
\* tables lit and dist of its codes
inflate_symbols(lit, dist, bits, pos, out) ==
    LET \* at.out with len more bytes, each a copy of the byte back places
        \* back; before the first byte of the output there are zeros
        copy_back(at, len, back) ==
            at.out \o [i \in 1..len |->
                          IF Len(at.out) - back + 1 + ((i - 1) % back) >= 1
                          THEN at.out[Len(at.out) - back + 1 + ((i - 1) % back)]
                          ELSE 0]
        \* a match of len bytes whose distance symbol is d
        matched(at, len, d) ==
            IF d.status # "more" THEN Inflating(d.status, at.pos, at.out)
            ELSE IF d.sym > 29 THEN Inflating("corrupt", at.pos, at.out)
            ELSE IF d.pos + DeflateTables.dist_extra[d.sym + 1] > Len(bits)
            THEN Inflating("truncated", at.pos, at.out)
            ELSE Inflating("symbols", d.pos + DeflateTables.dist_extra[d.sym + 1],
                           copy_back(at, len,
                                     DeflateTables.dist_base[d.sym + 1]
                                        + take(bits, d.pos,
                                               DeflateTables.dist_extra[d.sym + 1])))
        \* the literal/length symbol s: a byte, the end of the block, a match
        decoded(at, s) ==
            IF s.status # "more" THEN Inflating(s.status, at.pos, at.out)
            ELSE IF s.sym < 256 THEN Inflating("symbols", s.pos, Append(at.out, s.sym))
            ELSE IF s.sym = 256 THEN Inflating("more", s.pos, at.out)
            ELSE IF s.sym > 285 THEN Inflating("corrupt", at.pos, at.out)
            ELSE IF s.pos + DeflateTables.length_extra[s.sym - 256] > Len(bits)
            THEN Inflating("truncated", at.pos, at.out)
            ELSE matched(at,
                         DeflateTables.length_base[s.sym - 256]
                            + take(bits, s.pos, DeflateTables.length_extra[s.sym - 256]),
                         huffman_symbol(dist, bits,
                                        s.pos + DeflateTables.length_extra[s.sym - 256], 1))
        \* symbol after symbol, most symbols at most
        RECURSIVE symbols(_, _)
        symbols(at, most) ==
            IF most = 0 \/ at.status # "symbols" THEN at
            ELSE IF most = 1 THEN decoded(at, huffman_symbol(lit, bits, at.pos, 1))
            ELSE symbols(symbols(at, most \div 2), most - most \div 2)
    IN symbols(Inflating("symbols", pos, out), Len(bits) - pos + 1)

\* the code lengths of a dynamic block, read with its code length code:
\* 0..15 a length, 16 the last length again, 17 and 18 runs of zeros
code_lengths(clc, bits, pos, want) ==
    LET \* the bits that follow the symbol and say how often it repeats
        extra(sym) == IF sym = 16 THEN 2 ELSE IF sym = 17 THEN 3 ELSE IF sym = 18 THEN 7 ELSE 0
        count(s) == IF s.sym < 16 THEN 1
                    ELSE (IF s.sym = 18 THEN 11 ELSE 3) + take(bits, s.pos, extra(s.sym))
        value(at, s) == IF s.sym < 16 THEN s.sym
                        ELSE IF s.sym = 16 THEN at.lens[Len(at.lens)] ELSE 0
        decoded(at, s) ==
            IF s.status # "more" THEN [at EXCEPT !.status = s.status]
            ELSE IF s.sym = 16 /\ at.lens = <<>> THEN [at EXCEPT !.status = "corrupt"]
            ELSE IF s.pos + extra(s.sym) > Len(bits) THEN [at EXCEPT !.status = "truncated"]
            ELSE [status |-> "lengths", pos |-> s.pos + extra(s.sym),
                  lens |-> at.lens \o [i \in 1..count(s) |-> value(at, s)]]
        length(at) ==
            IF Len(at.lens) = want THEN [at EXCEPT !.status = "more"]
            ELSE IF Len(at.lens) > want THEN [at EXCEPT !.status = "corrupt"]
            ELSE decoded(at, huffman_symbol(clc, bits, at.pos, 1))
        RECURSIVE lengths(_, _)
        lengths(at, most) ==
            IF most = 0 \/ at.status # "lengths" THEN at
            ELSE IF most = 1 THEN length(at)
            ELSE lengths(lengths(at, most \div 2), most - most \div 2)
    IN lengths([status |-> "lengths", pos |-> pos, lens |-> <<>>], want + 1)

\* block after block up to the one marked final
inflate_blocks(bits) ==
    LET \* a literal/length or distance code is taken when it is complete
        \* or has at most one symbol, a code length code only when it is
        \* complete
        code_usable(table) == table.complete \/ table.used <= 1
        \* a stored block: to the next whole byte, LEN and its complement,
        \* the bytes, of which have are there
        inflate_stored(from, out) ==
            LET stored(at, len, nlen, have) ==
                    IF len + nlen # 65535 THEN Inflating("corrupt", from, out)
                    ELSE Inflating(IF have < len THEN "truncated" ELSE "more",
                                   at + 32 + 8 * Min(len, have),
                                   out \o [i \in 1..Min(len, have) |->
                                              take(bits, at + 32 + 8 * (i - 1), 8)])
                aligned(at) ==
                    IF at + 32 > Len(bits) THEN Inflating("truncated", from, out)
                    ELSE stored(at, take(bits, at, 16), take(bits, at + 16, 16),
                                (Len(bits) - (at + 32)) \div 8)
            IN aligned(8 * ((from + 7) \div 8))
        \* a block with the codes it brings along: hlit literal/length and
        \* hdist distance code lengths, written with a code of hclen lengths;
        \* more than 286 or 30 of them are refused
        inflate_dynamic(from, out) ==
            LET with_codes(lit, dist, at) ==
                    IF ~code_usable(lit) \/ ~code_usable(dist)
                    THEN Inflating("corrupt", from, out)
                    ELSE inflate_symbols(lit, dist, bits, at, out)
                with_lengths(hlit, hdist, lens) ==
                    IF lens.status # "more" THEN Inflating(lens.status, from, out)
                    ELSE with_codes(huffman_table(SubSeq(lens.lens, 1, hlit)),
                                    huffman_table(SubSeq(lens.lens, hlit + 1, hlit + hdist)),
                                    lens.pos)
                with_code_length_code(hlit, hdist, hclen, clc) ==
                    IF from + 14 + 3 * hclen > Len(bits) THEN Inflating("truncated", from, out)
                    ELSE IF ~clc.complete THEN Inflating("corrupt", from, out)
                    ELSE with_lengths(hlit, hdist,
                                      code_lengths(clc, bits, from + 14 + 3 * hclen,
                                                   hlit + hdist))
                code_length_code(hclen, listed) ==
                    Table([sym \in 1..19 |->
                              IF \E i \in 1..hclen : DeflateTables.code_length_order[i] = sym - 1
                              THEN listed[CHOOSE i \in 1..hclen :
                                             DeflateTables.code_length_order[i] = sym - 1]
                              ELSE 0])
                with_counts(hlit, hdist, hclen) ==
                    IF hlit > 286 \/ hdist > 30 THEN Inflating("corrupt", from, out)
                    ELSE with_code_length_code(
                            hlit, hdist, hclen,
                            huffman_table(code_length_code(
                                hclen,
                                [i \in 1..Min(hclen, (Len(bits) - from - 14) \div 3) |->
                                    take(bits, from + 14 + 3 * (i - 1), 3)])))
            IN IF from + 14 > Len(bits) THEN Inflating("truncated", from, out)
               ELSE with_counts(take(bits, from, 5) + 257, take(bits, from + 5, 5) + 1,
                                take(bits, from + 10, 4) + 4)
        block_of(at, type) ==
            IF type = 0 THEN inflate_stored(at.pos + 3, at.out)
            ELSE IF type = 1
            THEN inflate_symbols(StaticCode.lit_table, StaticCode.dist_table, bits, at.pos + 3,
                                 at.out)
            ELSE IF type = 2 THEN inflate_dynamic(at.pos + 3, at.out)
            ELSE Inflating("corrupt", at.pos, at.out)
        after(final, block) ==
            IF block.status = "more" /\ final THEN Inflating("end", block.pos, block.out)
            ELSE block
        block(at) ==
            IF at.pos + 3 > Len(bits) THEN Inflating("truncated", at.pos, at.out)
            ELSE after(bits[at.pos + 1] = 1, block_of(at, take(bits, at.pos + 1, 2)))
        RECURSIVE blocks(_, _)
        blocks(at, most) ==
            IF most = 0 \/ at.status # "more" THEN at
            ELSE IF most = 1 THEN block(at)
            ELSE blocks(blocks(at, most \div 2), most - most \div 2)
    IN blocks(Inflating("more", 0, <<>>), Len(bits) \div 10 + 1)

\* ZlibDecoder::new(vec![]), write_all, finish.  A stream that stops early
\* is no error: finish returns what has been inflated.  A wrong header, bits
\* that are no deflate data and a wrong checksum are errors of write_all, and
\* so are bytes after the checksum, which the decoder does not take
zlib_decode(stream) ==
    LET \* the two header bytes of a zlib stream (RFC 1950): deflate, a
        \* window of at most 32 KiB, no preset dictionary, and a multiple of 31
        zlib_header_ok(cmf, flg) ==
            /\ (256 * cmf + flg) % 31 = 0
            /\ (flg \div 32) % 2 = 0
            /\ cmf % 16 = 8
            /\ cmf \div 16 <= 7
        \* the checksum is looked for at the whole byte after the data
        checked(bits, data, at) ==
            IF data.status = "corrupt" THEN Err("corrupt deflate stream")
            ELSE IF data.status # "end" THEN Ok(data.out)
            ELSE IF at + 32 > Len(bits) THEN Ok(data.out)
            ELSE IF [i \in 1..4 |-> take(bits, at + 8 * (i - 1), 8)] # adler32(data.out)
            THEN Err("corrupt deflate stream")
            ELSE IF at + 32 < Len(bits) THEN Err("failed to write whole buffer")
            ELSE Ok(data.out)
        inflated(bits, data) == checked(bits, data, 8 * ((data.pos + 7) \div 8))
        inflate(bits) == inflated(bits, inflate_blocks(bits))
    IN IF Len(stream) < 2 THEN Ok(<<>>)
       ELSE IF ~zlib_header_ok(stream[1], stream[2]) THEN Err("corrupt deflate stream")
       ELSE \* the bits of the bytes after the header, the lowest of a byte first
            inflate(Table([i \in 1..(8 * (Len(stream) - 2)) |->
                              (stream[(i - 1) \div 8 + 3] \div 2^((i - 1) % 8)) % 2]))

\* compress, on the text of a token
jwtc_compress(jwt) ==
    LET joined(components) ==
            IF \E i \in 1..Len(components) : ~components[i].ok
            THEN components[CHOOSE i \in 1..Len(components) :
                               ~components[i].ok /\ \A j \in 1..(i - 1) : components[j].ok]
            ELSE Ok(base64_encode(zlib_encode(
                       join([i \in 1..Len(components) |-> components[i].val], Newline))))
        decoded(segments) == joined([i \in 1..Len(segments) |-> base64_decode(segments[i])])
    IN decoded(split(trim(jwt), Dot))

\* decompress with split in place of splitn(3, ..)
jwtc_decompress_splitting_every_newline(jwt) ==
    LET joined(pieces) ==
            Ok(join([i \in 1..Len(pieces) |-> base64_encode(pieces[i])], Dot))
        split_up(decompressed) ==
            IF ~decompressed.ok THEN decompressed
            ELSE joined(split(decompressed.val, Newline))
        inflated(compressed) ==
            IF ~compressed.ok THEN compressed
            ELSE split_up(zlib_decode(compressed.val))
    IN inflated(base64_decode(trim(jwt)))

\* decompress, on the text of a cookie value
jwtc_decompress(jwt) ==
    LET joined(pieces) ==
            Ok(join([i \in 1..Len(pieces) |-> base64_encode(pieces[i])], Dot))
        split_up(decompressed) ==
            IF ~decompressed.ok THEN decompressed
            ELSE joined(splitn(3, decompressed.val, Newline))
        inflated(compressed) ==
            IF ~compressed.ok THEN compressed
            ELSE split_up(zlib_decode(compressed.val))
    IN inflated(base64_decode(trim(jwt)))

----------------------------------------------------------------------------
(* auth.rs: build_cookie *)

\* build_cookie: the cookie's fixed attributes (HttpOnly, Path=/) are left out
build_cookie(c, claims, max_age) ==
    LET signed == JwtClaims_sign(claims)
    IN IF ~signed.ok THEN signed
       ELSE LET value == compress(signed.val)
            IN IF ~value.ok THEN value
               ELSE Ok([name |-> c.cookie_name, value |-> value.val, max_age |-> max_age])

----------------------------------------------------------------------------
(* oidc.rs: the calls the handlers make.  The provider's answer to a token *)
(* request is an input: whether the grant was accepted, the bearer and the *)
(* ID token it returned.                                                   *)

\* struct Claims: realm_access and the userinfo part of the standard claims
Claims(realm_access, userinfo) ==
    [realm_access |-> realm_access, userinfo |-> userinfo]

\* the ID token checks shared by renew and validate_code
\* (oidc.rs:235-248 and :276-287)
checked_id_token(answer) ==
    IF answer.id_token = "missing" THEN Err("no id token")
    ELSE IF answer.id_token = "undecodable" THEN Err("failed to decode token")
    ELSE IF answer.id_token = "invalid" THEN Err("failed to validate token")
    ELSE Ok(<<answer.bearer, answer.claims>>)

\* OidcHandler::renew: the refresh-token grant, then the ID token checks
OidcHandler_renew(token, answer) ==
    IF ~answer.granted THEN Err("refresh rejected")
    ELSE checked_id_token(answer)

\* OidcHandler::validate_code: the code exchange, then the ID token checks
OidcHandler_validate_code(redirect_uri, code, answer) ==
    IF ~answer.granted THEN Err("failed to resolve token")
    ELSE checked_id_token(answer)

----------------------------------------------------------------------------
(* oidc.rs: the cached client.  OidcHandler.client is a tokio RwLock around *)
(* (deadline, client).  tokio's RwLock is fair: waiters are served in the   *)
(* order they asked, so a reader that asks while a writer waits queues      *)
(* behind that writer.                                                      *)

FreeLock == [readers |-> {}, writer |-> None, queue |-> <<>>]

\* the waiters at the head of the queue that can be served
RECURSIVE lock_grant(_)
lock_grant(l) ==
    IF l.queue = <<>> \/ is_some(l.writer) THEN l
    ELSE LET head == Head(l.queue)
         IN IF head.mode = "read"
            THEN lock_grant([l EXCEPT !.readers = @ \cup {head.task}, !.queue = Tail(@)])
            ELSE IF l.readers = {}
            THEN [l EXCEPT !.writer = Some(head.task), !.queue = Tail(@)]
            ELSE l

\* RwLock::read / RwLock::write: the guard at once when nobody waits and
\* nothing stands against it, a place at the end of the queue otherwise
lock_acquire(l, t, mode) ==
    lock_grant([l EXCEPT !.queue = Append(@, [task |-> t, mode |-> mode])])

\* the guard of t is dropped, and the waiters it stood against are served
lock_release(l, t) ==
    lock_grant([l EXCEPT !.readers = @ \ {t},
                         !.writer = IF @ = Some(t) THEN None ELSE @])

holds_read(l, t) == t \in l.readers
holds_write(l, t) == l.writer = Some(t)

\* a test that takes every entry for expired
deadline_passed_always(entry, now) == TRUE

\* validate_code, lines 254 and 258: client.0 < now
deadline_passed(entry, now) == entry.deadline < now

\* OidcHandler::new, lines 196-201: the entry after startup at time now
startup_entry(c, now) == [deadline |-> now + c.oidc_refresh_time_sec, client |-> 0]

\* validate_code, lines 260-263: the entry that replaces the old one; now is
\* the clock read of line 253
refreshed_entry(c, now, entry) ==
    [deadline |-> now + c.oidc_refresh_time_sec, client |-> entry.client + 1]

\* the shared guard kept across the request for exclusive access
drop_client_keeping_guard(l, t) == l

\* validate_code, line 255: drop(client), the shared guard is given back
drop_client(l, t) == lock_release(l, t)

\* recreate that gives up at the first failure
recreate_giving_up(discovered) == IF discovered THEN "vc_install" ELSE "idle"

\* recreate, lines 216-220: what follows a discovery attempt
recreate_next(discovered) == IF discovered THEN "vc_install" ELSE "vc_sleep"

----------------------------------------------------------------------------
(* validate.rs *)

\* is_expired with the bounds taken as already expired
is_expired_at_bound(c, claims, now) ==
    \/ claims.exp <= now
    \/ claims.iss + c.login_cache_minutes * SecondsPerMinute <= now

\* postvalidate_jwt, line 28: the expiry test
is_expired(c, claims, now) ==
    \/ claims.exp < now
    \/ claims.iss + c.login_cache_minutes * SecondsPerMinute < now

\* renewal_due without the threshold: every session with a refresh token
renewal_due_at_any_time(c, claims, now) ==
    /\ c.refresh_tokens
    /\ is_some(claims.bearer.refresh_token)

\* renewal_due that renews at the threshold itself
renewal_due_at_threshold(c, claims, now) ==
    /\ c.refresh_tokens
    /\ is_some(claims.bearer.refresh_token)
    /\ claims.iss + c.login_renew_seconds <= now

\* postvalidate_jwt, lines 34-36: the renewal test
renewal_due(c, claims, now) ==
    /\ c.refresh_tokens
    /\ is_some(claims.bearer.refresh_token)
    /\ claims.iss + c.login_renew_seconds < now

\* realm_access.as_ref().map(|x| &x.roles[..]).unwrap_or_default().to_vec()
realm_roles(new_claims) ==
    IF is_some(new_claims.realm_access) THEN unwrap(new_claims.realm_access).roles ELSE {}

\* renewed_claims that adds the provider's roles to those of the session
renewed_claims_adding_roles(claims, bearer, new_claims) ==
    [claims EXCEPT
        !.bearer = [bearer EXCEPT !.id_token = None, !.access_token = ""],
        !.roles = @ \cup realm_roles(new_claims)]

\* renewed_claims that keeps the provider's ID token
renewed_claims_keeping_id_token(claims, bearer, new_claims) ==
    [claims EXCEPT
        !.bearer = [bearer EXCEPT !.access_token = ""],
        !.roles = realm_roles(new_claims)]

\* postvalidate_jwt, lines 40-48: the renewed bearer and roles
renewed_claims(claims, bearer, new_claims) ==
    [claims EXCEPT
        !.bearer = [bearer EXCEPT !.id_token = None, !.access_token = ""],
        !.roles = realm_roles(new_claims)]

\* renew_max_age that never looks at the upstream expiry
renew_max_age_uncapped(c, bearer, now) ==
    c.login_cache_minutes * SecondsPerMinute

\* postvalidate_jwt, lines 51-58.  checked_sub fails on i64 overflow only,
\* which two chrono timestamps cannot produce.
renew_max_age(c, bearer, now) ==
    LET max_age == c.login_cache_minutes * SecondsPerMinute
    IN IF c.honor_token_expiry /\ is_some(bearer.expires)
       THEN Min(max_age, unwrap(bearer.expires) - now)
       ELSE max_age

PostValidation(outcome, cookie, claims, calls) ==
    [ok |-> TRUE, outcome |-> outcome, cookie |-> cookie, claims |-> claims, calls |-> calls]

PostValidationErr(e, calls) ==
    [ok |-> FALSE, outcome |-> e, cookie |-> None, claims |-> None, calls |-> calls]

\* renew_session that leaves the issue time of the session as it was
renew_session_keeping_issue_time(c, claims, answer, now1, now2) ==
    LET renewed == OidcHandler_renew(claims.bearer, answer)
    IN IF ~renewed.ok THEN PostValidationErr(renewed.val, <<"renew">>)
       ELSE LET claims1 == renewed_claims(claims, renewed.val[1], renewed.val[2])
                max_age == renew_max_age(c, claims1.bearer, now2)
                claims2 == [claims1 EXCEPT !.exp = now1 + max_age]
                cookie == build_cookie(c, claims2, max_age)
            IN IF ~cookie.ok THEN PostValidationErr(cookie.val, <<"renew">>)
               ELSE PostValidation("Renewed", Some(cookie.val), Some(claims2), <<"renew">>)

\* renew_session that asks the provider a second time when the first call fails
renew_session_retrying(c, claims, answer, now1, now2) ==
    LET renewed == OidcHandler_renew(claims.bearer, answer)
    IN IF ~renewed.ok THEN PostValidationErr(renewed.val, <<"renew", "renew">>)
       ELSE LET claims1 == renewed_claims(claims, renewed.val[1], renewed.val[2])
                max_age == renew_max_age(c, claims1.bearer, now2)
                claims2 == [claims1 EXCEPT !.iss = now1, !.exp = now1 + max_age]
                cookie == build_cookie(c, claims2, max_age)
            IN IF ~cookie.ok THEN PostValidationErr(cookie.val, <<"renew">>)
               ELSE PostValidation("Renewed", Some(cookie.val), Some(claims2), <<"renew">>)

\* postvalidate_jwt, lines 38-65: the renewal.  now1 is the clock read of
\* line 50, now2 the one of line 54.
renew_session(c, claims, answer, now1, now2) ==
    LET renewed == OidcHandler_renew(claims.bearer, answer)
    IN IF ~renewed.ok THEN PostValidationErr(renewed.val, <<"renew">>)
       ELSE LET claims1 == renewed_claims(claims, renewed.val[1], renewed.val[2])
                max_age == renew_max_age(c, claims1.bearer, now2)
                claims2 == [claims1 EXCEPT !.iss = now1, !.exp = now1 + max_age]
                cookie == build_cookie(c, claims2, max_age)
            IN IF ~cookie.ok THEN PostValidationErr(cookie.val, <<"renew">>)
               ELSE PostValidation("Renewed", Some(cookie.val), Some(claims2), <<"renew">>)

\* postvalidate_jwt
postvalidate_jwt(c, claims, customized, now, answer, now1, now2) ==
    IF is_expired(c, claims, now) THEN PostValidation("Expired", None, None, <<>>)
    ELSE IF ~has_required_roles(claims, customized.required_roles)
    THEN PostValidation("Forbidden", None, None, <<>>)
    ELSE IF renewal_due(c, claims, now) THEN renew_session(c, claims, answer, now1, now2)
    ELSE PostValidation("Pass", None, Some(claims), <<>>)

\* axol: the status of Ok(headers) and of each Error the handler returns
Unauthorized == 401
Forbidden == 403
BadRequest == 400
StatusOk == 200

Response(status, headers, outcome, calls) ==
    [status |-> status, headers |-> headers, outcome |-> outcome, calls |-> calls]

\* Url::parse(x).ok() on the x-original-url header
Url_parse(x) == IF x.parses THEN Some([host |-> x.host, path |-> x.path]) ELSE None

\* validate, lines 74-85: the policy of the request
request_policy(c, headers_in) ==
    LET original_url == IF "x-original-url" \in DOMAIN headers_in
                        THEN Url_parse(headers_in["x-original-url"]) ELSE None
    IN IF is_some(original_url)
       THEN LET u == unwrap(original_url)
            IN Config_customized(c, IF is_some(u.host) THEN unwrap(u.host) ELSE "", u.path)
       ELSE Config_uncustomized(c)

\* validate, lines 91-97: the named cookie of the Cookie header
named_cookie(c, cookies) ==
    IF ~is_some(cookies) THEN Err(Unauthorized)
    ELSE IF c.cookie_name \notin DOMAIN unwrap(cookies) THEN Err(Unauthorized)
    ELSE Ok(unwrap(cookies)[c.cookie_name])

\* validate, lines 122-127: the success header and the claim headers
success_headers(c, claims) ==
    LET named == {h \in DOMAIN c.header_claims : c.header_claims[h] \in DOMAIN claims.claims}
    IN [h \in named |-> claims.claims[c.header_claims[h]]] @@ (c.success_header :> "true")

\* validated_response that lets a failed validation through
validated_response_failing_open(c, post, calls) ==
    IF ~post.ok THEN Response(StatusOk, EmptyMap, "Err", calls)
    ELSE IF post.outcome = "Expired" THEN Response(Unauthorized, EmptyMap, "Expired", calls)
    ELSE IF post.outcome = "Forbidden" THEN Response(Forbidden, EmptyMap, "Forbidden", calls)
    ELSE IF post.outcome = "Renewed"
    THEN Response(StatusOk,
                  success_headers(c, unwrap(post.claims)) @@ ("set-cookie" :> unwrap(post.cookie)),
                  "Renewed", calls)
    ELSE Response(StatusOk, success_headers(c, unwrap(post.claims)), "Pass", calls)

\* validate, lines 108-129: the answer for the validator's result
validated_response(c, post, calls) ==
    IF ~post.ok THEN Response(Unauthorized, EmptyMap, "Err", calls)
    ELSE IF post.outcome = "Expired" THEN Response(Unauthorized, EmptyMap, "Expired", calls)
    ELSE IF post.outcome = "Forbidden" THEN Response(Forbidden, EmptyMap, "Forbidden", calls)
    ELSE IF post.outcome = "Renewed"
    THEN Response(StatusOk,
                  success_headers(c, unwrap(post.claims)) @@ ("set-cookie" :> unwrap(post.cookie)),
                  "Renewed", calls)
    ELSE Response(StatusOk, success_headers(c, unwrap(post.claims)), "Pass", calls)

\* validate, lines 91-104: the session of the request's cookie, or the status
\* of the rejection
verified_session(c, cookies) ==
    LET cookie == named_cookie(c, cookies)
    IN IF ~cookie.ok THEN [ok |-> FALSE, val |-> cookie.val, calls |-> <<>>]
       ELSE LET decompressed == decompress(cookie.val)
            IN IF ~decompressed.ok
               THEN [ok |-> FALSE, val |-> BadRequest, calls |-> <<"decompress">>]
               ELSE LET claims == JwtClaims_validate(decompressed.val)
                    IN IF ~claims.ok
                       THEN [ok |-> FALSE, val |-> BadRequest, calls |-> <<"decompress", "verify">>]
                       ELSE IF claims.val.issuer # c.public
                       THEN [ok |-> FALSE, val |-> Unauthorized, calls |-> <<"decompress", "verify">>]
                       ELSE [ok |-> TRUE, val |-> claims.val, calls |-> <<"decompress", "verify">>]

\* validate that reads the cookie before it looks at the bypass flag
validate_cookie_before_bypass(c, cookies, headers_in, now, answer, now1, now2) ==
    LET customized == request_policy(c, headers_in)
        session == verified_session(c, cookies)
    IN IF ~session.ok THEN Response(session.val, EmptyMap, "none", session.calls)
       ELSE IF customized.bypass THEN Response(StatusOk, EmptyMap, "none", session.calls)
       ELSE LET post == postvalidate_jwt(c, session.val, customized,
                                         now, answer, now1, now2)
            IN validated_response(c, post, session.calls \o post.calls)

\* validate.  now is the clock read of postvalidate_jwt's line 27.
validate(c, cookies, headers_in, now, answer, now1, now2) ==
    LET customized == request_policy(c, headers_in)
    IN IF customized.bypass THEN Response(StatusOk, EmptyMap, "none", <<>>)
       ELSE LET session == verified_session(c, cookies)
            IN IF ~session.ok THEN Response(session.val, EmptyMap, "none", session.calls)
               ELSE LET post == postvalidate_jwt(c, session.val, customized,
                                                 now, answer, now1, now2)
                    IN validated_response(c, post, session.calls \o post.calls)

\* validate reaches OIDC.renew(..).await (validate.rs:39)
awaits_renew(c, cookies, headers_in, now) ==
    LET customized == request_policy(c, headers_in)
        session == verified_session(c, cookies)
    IN /\ ~customized.bypass
       /\ session.ok
       /\ ~is_expired(c, session.val, now)
       /\ has_required_roles(session.val, customized.required_roles)
       /\ renewal_due(c, session.val, now)

----------------------------------------------------------------------------
(* auth.rs *)

TemporaryRedirect == 307

\* config.rs REDIRECT_URL with the "url" query pair appended (auth.rs:31-34)
callback_uri(c, url) == [base |-> c.public, segment |-> "auth", url |-> url]

\* serde_urlencoded::from_str::<OauthParameters>: code and url are both
\* required and url must parse as a Url
parse_oauth_parameters(query) ==
    IF ~is_some(query.code) \/ ~is_some(query.url) THEN Err("failed to parse query")
    ELSE IF ~unwrap(query.url).parses THEN Err("failed to parse query")
    ELSE Ok([code |-> unwrap(query.code), url |-> unwrap(query.url)])

\* validate_oauth, lines 46-53.  checked_sub fails on i64 overflow only.
auth_max_age(c, bearer, now) ==
    LET max_age == c.login_cache_minutes * SecondsPerMinute
    IN IF c.honor_token_expiry /\ is_some(bearer.expires)
       THEN Min(max_age, unwrap(bearer.expires) - now)
       ELSE max_age

\* validate_oauth, lines 55-59: what of the provider's bearer is kept
stored_bearer(c, bearer) ==
    [bearer EXCEPT !.id_token = None,
                   !.access_token = "",
                   !.refresh_token = IF ~c.refresh_tokens THEN None ELSE @]

\* validate_oauth, lines 73-82: the text of a userinfo value, if it has one
claim_text(value) ==
    IF value.type = "null" THEN None
    ELSE IF value.type = "bool" THEN Some(IF value.v = 1 THEN "true" ELSE "false")
    ELSE IF value.type = "number" THEN Some(IF value.v = 1 THEN "1" ELSE "0")
    ELSE IF value.type = "string" THEN Some(value.s)
    ELSE None

\* validate_oauth, lines 71-84: the claims map of the session
header_claim_values(c, raw_userinfo) ==
    LET wanted == {c.header_claims[h] : h \in DOMAIN c.header_claims}
        kept == {claim \in wanted : /\ claim \in DOMAIN raw_userinfo
                                    /\ is_some(claim_text(raw_userinfo[claim]))}
    IN [claim \in kept |-> unwrap(claim_text(raw_userinfo[claim]))]

\* validate_oauth.  now1 is the clock read of line 45, now2 the one of line 49.
validate_oauth(c, query, answer, now1, now2) ==
    IF ~is_some(query) THEN Err("missing query")
    ELSE LET parameters == parse_oauth_parameters(unwrap(query))
         IN IF ~parameters.ok THEN parameters
            ELSE LET redirect_uri == callback_uri(c, parameters.val.url)
                     exchanged == OidcHandler_validate_code(redirect_uri, parameters.val.code, answer)
                 IN IF ~exchanged.ok THEN exchanged
                    ELSE LET claims == exchanged.val[2]
                             roles == realm_roles(claims)
                             max_age == auth_max_age(c, exchanged.val[1], now2)
                             bearer == stored_bearer(c, exchanged.val[1])
                             out == JwtClaims(c.public, header_claim_values(c, claims.userinfo),
                                              now1, now1 + max_age, roles, bearer)
                             cookie == build_cookie(c, out, max_age)
                         IN IF ~cookie.ok THEN cookie
                            ELSE Ok(<<parameters.val.url, cookie.val>>)

\* validate_oauth reaches OIDC.validate_code(..).await (auth.rs:36)
awaits_validate_code(query) ==
    is_some(query) /\ parse_oauth_parameters(unwrap(query)).ok

\* crate::unauthorized(): the answer of /auth to any failure
unauthorized == Response(Unauthorized, EmptyMap, "none", <<>>)

\* auth
\* (redirect_uri is the redirect URI that went to the provider with the code)
auth(c, query, answer, now1, now2) ==
    LET r == validate_oauth(c, query, answer, now1, now2)
        asked == is_some(query) /\ parse_oauth_parameters(unwrap(query)).ok
        calls == IF asked THEN <<"validate_code">> ELSE <<>>
        redirect_uri == IF asked
                        THEN Some(callback_uri(c, parse_oauth_parameters(unwrap(query)).val.url))
                        ELSE None
    IN (IF ~r.ok THEN [unauthorized EXCEPT !.calls = calls]
        ELSE Response(TemporaryRedirect,
                      ("location" :> r.val[1]) @@ ("set-cookie" :> r.val[2]),
                      "none", calls))
       @@ [redirect_uri |-> redirect_uri]

----------------------------------------------------------------------------
(* login.rs *)

\* serde_urlencoded::from_str::<LoginParameters>: url is required and must
\* parse as a Url; other pairs of the query are ignored
parse_login_parameters(query) ==
    IF ~is_some(query.url) THEN Err("failed to parse query")
    ELSE IF ~unwrap(query.url).parses THEN Err("failed to parse query")
    ELSE Ok([url |-> unwrap(query.url)])

\* login_callback_uri that names /login as the callback
login_callback_uri_to_login(c, url) == [base |-> c.public, segment |-> "login", url |-> url]

\* config.rs REDIRECT_URL with the "url" query pair appended (login.rs:20-23)
login_callback_uri(c, url) == [base |-> c.public, segment |-> "auth", url |-> url]

\* OidcHandler::auth_url: the authorization endpoint of the cached client
\* with the redirect_uri set; it asks nothing of the provider
OidcHandler_auth_url(entry, redirect_uri) ==
    [endpoint |-> "authorization", client |-> entry.client, redirect_uri |-> redirect_uri]

\* redirect_uri reaches OIDC.auth_url(..).await (login.rs:24)
awaits_auth_url(query) ==
    is_some(query) /\ parse_login_parameters(unwrap(query)).ok

\* redirect_uri (login.rs); entry is the cached entry that auth_url reads
redirect_uri(c, entry, query) ==
    IF ~is_some(query) THEN Err("missing query")
    ELSE LET parameters == parse_login_parameters(unwrap(query))
         IN IF ~parameters.ok THEN parameters
            ELSE Ok(OidcHandler_auth_url(entry, login_callback_uri(c, parameters.val.url)))

\* login
login(c, entry, query) ==
    LET location == redirect_uri(c, entry, query)
    IN IF ~location.ok THEN Response(BadRequest, EmptyMap, "none", <<>>)
       ELSE Response(TemporaryRedirect, ("location" :> location.val), "none", <<"auth_url">>)

----------------------------------------------------------------------------
(* main.rs: what the router does to the response of every handler *)

\* cache_control, the late response hook of every route
cache_control(response) ==
    [response EXCEPT !.headers = ("cache-control" :> "no-store, must-revalidate, max-age=0") @@ @]

\* the Cors plugin of line 48: every response passes it, configured with
\* allow_methods(Any) and allow_origin("*").  The plugin is the framework's
\* and its code is not in this source: the response records the
\* configuration it passed under, and its headers are left as they are
Cors(response) ==
    response @@ [cors |-> [allow_methods |-> "Any", allow_origin |-> "*"]]

\* route: a handler's response as it leaves the routes of "/", after the
\* late response hook and the Cors plugin, with the header map the handler
\* itself returned kept beside it.  The Trace and Logger plugins of lines
\* 49-55 observe the response
route(response) ==
    Cors(cache_control(response)) @@ [handler_headers |-> response.headers]

----------------------------------------------------------------------------
(* The requests and provider answers of the model *)

Url(host, path) == [parses |-> TRUE, host |-> Some(host), path |-> path]
NotAUrl == [parses |-> FALSE, host |-> None, path |-> <<>>]

\* the headers of a /validate subrequest that the handler reads
OriginalUrlHeaders ==
    {EmptyMap}
    \cup {("x-original-url" :> u) :
            u \in {NotAUrl, Url("a.test", PathRoot), Url("a.test", PathAdminX),
                   Url("b.test", PathRoot)}}

\* sessions as the deployment stores them (upstream tokens stripped), with
\* every issue and expiry time: the key outlives a change of configuration
StoredSessions ==
    {JwtClaims(PublicUrl, ("email" :> "a@x"), iss, exp, roles,
               Bearer("", refresh_token, None, None)) :
        iss \in Times, exp \in Times, roles \in SUBSET Roles,
        refresh_token \in {None, Some("rt")}}

\* a session that every policy of the model accepts until the last clock value
LongSession ==
    JwtClaims(PublicUrl, EmptyMap, 0, MaxMinutes * SecondsPerMinute + 1, Roles,
              Bearer("", None, None, None))

CookieOf(claims) == [decodable |-> TRUE, token |-> [key |-> JWT_KEY, payload |-> claims]]

CookieValues ==
    {CookieOf(s) : s \in StoredSessions}
    \cup {CookieOf(LongSession),
          \* minted by another deployment that shares the key
          CookieOf([LongSession EXCEPT !.issuer = "https://other.test/"]),
          \* not base64url / not a zlib stream
          [decodable |-> FALSE, token |-> [key |-> JWT_KEY, payload |-> LongSession]],
          \* altered or forged: the signature does not verify under JWT_KEY
          [decodable |-> TRUE, token |-> [key |-> "other_key", payload |-> LongSession]]}

CookieHeaders ==
    {None, Some(("other" :> "x"))} \cup {Some((CookieName :> v)) : v \in CookieValues}

ProviderBearers ==
    {Bearer("at", refresh_token, expires, Some("idt")) :
        refresh_token \in {None, Some("rt2")}, expires \in {None} \cup {Some(t) : t \in Times}}

RealmAccesses == {None, Some([roles |-> {}]), Some([roles |-> {"user"}]), Some([roles |-> Roles])}

UserinfoValue(type, v, str) == [type |-> type, v |-> v, s |-> str]

Answer(granted, id_token, bearer, claims) ==
    [granted |-> granted, id_token |-> id_token, bearer |-> bearer, claims |-> claims]

RefusedAnswers ==
    LET bearer == Bearer("at", Some("rt2"), None, Some("idt"))
        claims == Claims(Some([roles |-> Roles]), EmptyMap)
    IN {Answer(FALSE, "valid", bearer, claims),
        Answer(TRUE, "missing", [bearer EXCEPT !.id_token = None], claims),
        Answer(TRUE, "undecodable", bearer, claims),
        Answer(TRUE, "invalid", bearer, claims)}

\* the provider's answers to a refresh-token grant
RenewAnswers ==
    RefusedAnswers
    \cup {Answer(TRUE, "valid", bearer, Claims(realm_access, EmptyMap)) :
            bearer \in ProviderBearers, realm_access \in RealmAccesses}

\* the provider's answers to a code exchange
ExchangeAnswers ==
    LET Userinfos ==
            {EmptyMap}
            \cup {("email" :> u) :
                    u \in {UserinfoValue("null", 0, ""), UserinfoValue("bool", 1, ""),
                           UserinfoValue("number", 1, ""), UserinfoValue("string", 0, "a@x"),
                           UserinfoValue("array", 0, "")}}
    IN RefusedAnswers
       \cup {Answer(TRUE, "valid", bearer, Claims(realm_access, ("email" :> UserinfoValue("string", 0, "a@x")))) :
               bearer \in ProviderBearers, realm_access \in RealmAccesses}
       \cup {Answer(TRUE, "valid", bearer, Claims(Some([roles |-> Roles]), userinfo)) :
               bearer \in ProviderBearers, userinfo \in Userinfos}

ReturnUrl == Url("app.test", PathRoot)

Queries ==
    {None,
     Some([code |-> None, url |-> Some(ReturnUrl)]),
     Some([code |-> Some("code"), url |-> None]),
     Some([code |-> Some("code"), url |-> Some(NotAUrl)]),
     Some([code |-> Some("code"), url |-> Some(ReturnUrl)])}

\* no provider call was made
NoAnswer == None

----------------------------------------------------------------------------
(* The state machine.  A task is one request being served: a handler runs  *)
(* until it has to wait, at OIDC.renew(..).await (validate.rs:39), at      *)
(* OIDC.validate_code(..).await (auth.rs:36) or at OIDC.auth_url(..).await *)
(* (login.rs:24), and the server serves other requests in the meantime.    *)
(* A step that ends a request shows the request, the provider's answer it  *)
(* consumed and the clock values it read in req, and the response in res.  *)

Idle == <<>>

Tasks == 1..MaxTasks

\* req: what the handler was asked and keeps across its await; now: the
\* clock read of validate_code (oidc.rs:253); seen: the deadline that the
\* call found passed at line 254; discovered: the call went into recreate
IdleTask == [pc |-> "idle", req |-> Idle, now |-> 0, seen |-> None, discovered |-> FALSE]

\* the specifications of single functions keep the server out of their state
Unobserved ==
    /\ cache = Idle
    /\ lock = Idle
    /\ task = Idle

\* main.rs:99-100: oidc::init() has built the OidcHandler before the server
\* listens
Init ==
    /\ cfg \in Configs
    /\ clock \in {0}
    /\ op = "idle"
    /\ req = Idle
    /\ res = Idle
    /\ cache = startup_entry(cfg, clock)
    /\ lock = FreeLock
    /\ task = [t \in Tasks |-> IdleTask]

\* Utc::now() is the wall clock: it shows another of the times, later or
\* earlier
Tick(times) ==
    /\ op = "idle"
    /\ \E t \in times : t # clock /\ clock' = t
    /\ UNCHANGED <<cfg, op, req, res, oidcVars>>

\* GET /validate.  A request that needs no renewal is answered at once.
\* One that does asks for shared access to the client (oidc.rs:233); when
\* it has it at once the refresh request goes out (line 234)
ValidateArrives(t, cookie_headers, url_headers) ==
    /\ op = "idle"
    /\ task[t].pc = "idle"
    /\ \E cookies \in cookie_headers, headers_in \in url_headers :
         LET request == [cookies |-> cookies, headers_in |-> headers_in, now |-> clock]
             asked == lock_acquire(lock, t, "read")
         IN IF awaits_renew(cfg, cookies, headers_in, clock)
            THEN /\ task' = [task EXCEPT ![t] =
                               [IdleTask EXCEPT !.req = request,
                                                !.pc = IF holds_read(asked, t)
                                                       THEN "rn_call" ELSE "rn_read"]]
                 /\ lock' = asked
                 /\ UNCHANGED <<op, req, res>>
            ELSE /\ op' = "validate"
                 /\ req' = request @@ [answer |-> NoAnswer, now1 |-> clock, now2 |-> clock]
                 /\ res' = route(validate(cfg, cookies, headers_in, clock,
                                          NoAnswer, clock, clock))
                 /\ UNCHANGED <<task, lock>>
    /\ UNCHANGED <<cfg, clock, cache>>

\* renew, line 234: shared access is granted to a request that waited for
\* it, and the refresh request goes out with the guard held
RenewSend(t) ==
    /\ op = "idle"
    /\ task[t].pc = "rn_read"
    /\ holds_read(lock, t)
    /\ task' = [task EXCEPT ![t].pc = "rn_call"]
    /\ UNCHANGED <<cfg, clock, op, req, res, cache, lock>>

\* renew, lines 234-249, and validate.rs:39-65: the provider has answered;
\* the guard is dropped, the clock is read at line 50 and again at line 54,
\* and /validate is answered.  The second read shows any of the times:
\* nothing bounds the time an await takes, and the wall clock may be set back
RenewReturns(t, answers, times) ==
    /\ op = "idle"
    /\ task[t].pc = "rn_call"
    /\ \E answer \in answers, now2 \in times :
         /\ op' = "validate"
         /\ req' = task[t].req @@ [answer |-> Some(answer), now1 |-> clock, now2 |-> now2]
         /\ res' = route(validate(cfg, task[t].req.cookies, task[t].req.headers_in,
                                  task[t].req.now, answer, clock, now2))
         /\ clock' = now2
    /\ lock' = lock_release(lock, t)
    /\ task' = [task EXCEPT ![t] = IdleTask]
    /\ UNCHANGED <<cfg, cache>>

\* GET /auth.  A query that does not parse is answered at once; otherwise
\* validate_code asks for shared access to the client (oidc.rs:252)
AuthArrives(t, queries) ==
    /\ op = "idle"
    /\ task[t].pc = "idle"
    /\ \E query \in queries :
         IF awaits_validate_code(query)
         THEN /\ task' = [task EXCEPT ![t] =
                            [IdleTask EXCEPT !.req = [query |-> query], !.pc = "vc_read"]]
              /\ lock' = lock_acquire(lock, t, "read")
              /\ UNCHANGED <<op, req, res>>
         ELSE /\ op' = "auth"
              /\ req' = [query |-> query, answer |-> NoAnswer, now1 |-> clock, now2 |-> clock]
              /\ res' = route(auth(cfg, query, NoAnswer, clock, clock))
              /\ UNCHANGED <<task, lock>>
    /\ UNCHANGED <<cfg, clock, cache>>

\* validate_code, lines 253-255: with shared access the clock is read and
\* the deadline tested; when it has passed the guard is dropped, otherwise
\* the code is sent with the guard held
Check(t) ==
    /\ op = "idle"
    /\ task[t].pc = "vc_read"
    /\ holds_read(lock, t)
    /\ IF deadline_passed(cache, clock)
       THEN /\ task' = [task EXCEPT ![t] = [@ EXCEPT !.pc = "vc_dropped", !.now = clock,
                                                     !.seen = Some(cache.deadline)]]
            /\ lock' = drop_client(lock, t)
       ELSE /\ task' = [task EXCEPT ![t] = [@ EXCEPT !.pc = "vc_call", !.now = clock]]
            /\ lock' = lock
    /\ UNCHANGED <<cfg, clock, op, req, res, cache>>

\* validate_code, lines 256-257: the span is made and exclusive access
\* asked for, with no guard held; other requests have had their turn since
\* the shared guard was dropped
Reconnect(t) ==
    /\ op = "idle"
    /\ task[t].pc = "vc_dropped"
    /\ lock' = lock_acquire(lock, t, "write")
    /\ task' = [task EXCEPT ![t].pc = "vc_write"]
    /\ UNCHANGED <<cfg, clock, op, req, res, cache>>

\* validate_code, lines 258-259 and 265: with exclusive access the deadline
\* is tested again, against the clock read of line 253; when it has passed
\* recreate begins, otherwise the guard is dropped
Recheck(t) ==
    /\ op = "idle"
    /\ task[t].pc = "vc_write"
    /\ holds_write(lock, t)
    /\ IF deadline_passed(cache, task[t].now)
       THEN /\ task' = [task EXCEPT ![t] = [@ EXCEPT !.pc = "vc_discover", !.discovered = TRUE]]
            /\ lock' = lock
       ELSE /\ task' = [task EXCEPT ![t].pc = "vc_released"]
            /\ lock' = lock_release(lock, t)
    /\ UNCHANGED <<cfg, clock, op, req, res, cache>>

\* recreate, lines 207-220: a discovery attempt fails; the task begins to
\* sleep
DiscoverFails(t) ==
    /\ op = "idle"
    /\ task[t].pc = "vc_discover"
    /\ task' = [task EXCEPT ![t].pc = recreate_next(FALSE)]
    /\ UNCHANGED <<cfg, clock, op, req, res, cache, lock>>

\* recreate, line 219: the sleep is over; the loop discovers again
Wake(t) ==
    /\ op = "idle"
    /\ task[t].pc = "vc_sleep"
    /\ task' = [task EXCEPT ![t].pc = "vc_discover"]
    /\ UNCHANGED <<cfg, clock, op, req, res, cache, lock>>

\* recreate, line 216: a discovery attempt succeeds
DiscoverSucceeds(t) ==
    /\ op = "idle"
    /\ task[t].pc = "vc_discover"
    /\ task' = [task EXCEPT ![t].pc = recreate_next(TRUE)]
    /\ UNCHANGED <<cfg, clock, op, req, res, cache, lock>>

\* validate_code, lines 260-265: the new entry is installed and the guard
\* dropped
Install(t) ==
    /\ op = "idle"
    /\ task[t].pc = "vc_install"
    /\ cache' = refreshed_entry(cfg, task[t].now, cache)
    /\ lock' = lock_release(lock, t)
    /\ task' = [task EXCEPT ![t].pc = "vc_released"]
    /\ UNCHANGED <<cfg, clock, op, req, res>>

\* validate_code, line 266: shared access is asked for again, with no guard
\* held; other requests have had their turn since the exclusive guard was
\* dropped
Reread(t) ==
    /\ op = "idle"
    /\ task[t].pc = "vc_released"
    /\ lock' = lock_acquire(lock, t, "read")
    /\ task' = [task EXCEPT ![t].pc = "vc_read2"]
    /\ UNCHANGED <<cfg, clock, op, req, res, cache>>

\* validate_code, lines 268-272: with shared access again the client is
\* cloned and the code sent; the guard lives to the end of the function
Exchange(t) ==
    /\ op = "idle"
    /\ task[t].pc = "vc_read2"
    /\ holds_read(lock, t)
    /\ task' = [task EXCEPT ![t].pc = "vc_call"]
    /\ UNCHANGED <<cfg, clock, op, req, res, cache, lock>>

\* validate_code, lines 273-288, and auth.rs:36-86: the provider has
\* answered; the guard is dropped, the clock is read at auth.rs:45 and again
\* at auth.rs:49, any of the times, and /auth is answered
ExchangeReturns(t, answers, times) ==
    /\ op = "idle"
    /\ task[t].pc = "vc_call"
    /\ \E answer \in answers, now2 \in times :
         /\ op' = "auth"
         /\ req' = task[t].req @@ [answer |-> Some(answer), now1 |-> clock, now2 |-> now2]
         /\ res' = route(auth(cfg, task[t].req.query, answer, clock, now2))
         /\ clock' = now2
    /\ lock' = lock_release(lock, t)
    /\ task' = [task EXCEPT ![t] = IdleTask]
    /\ UNCHANGED <<cfg, cache>>

\* GET /login.  A query that does not parse is answered at once.  Otherwise
\* auth_url asks for shared access to the client (oidc.rs:226); with it the
\* URL is built from a clone of the client and the guard dropped (lines
\* 227-230), at once when nothing stands against shared access
LoginArrives(t, queries) ==
    /\ op = "idle"
    /\ task[t].pc = "idle"
    /\ \E query \in queries :
         LET asked == lock_acquire(lock, t, "read")
         IN IF awaits_auth_url(query) /\ ~holds_read(asked, t)
            THEN /\ task' = [task EXCEPT ![t] =
                               [IdleTask EXCEPT !.req = [query |-> query], !.pc = "au_read"]]
                 /\ lock' = asked
                 /\ UNCHANGED <<op, req, res>>
            ELSE /\ op' = "login"
                 /\ req' = [query |-> query]
                 /\ res' = route(login(cfg, cache, query))
                 /\ UNCHANGED <<task, lock>>
    /\ UNCHANGED <<cfg, clock, cache>>

\* auth_url, lines 227-230, and login.rs:24-42: shared access is granted to
\* a request that waited for it, and /login is answered
AuthUrl(t) ==
    /\ op = "idle"
    /\ task[t].pc = "au_read"
    /\ holds_read(lock, t)
    /\ op' = "login"
    /\ req' = task[t].req
    /\ res' = route(login(cfg, cache, task[t].req.query))
    /\ lock' = lock_release(lock, t)
    /\ task' = [task EXCEPT ![t] = IdleTask]
    /\ UNCHANGED <<cfg, clock, cache>>

\* health (main.rs:25): the handler does nothing and returns the unit value,
\* which is answered 200 with no header
health == Response(StatusOk, EmptyMap, "none", <<>>)

\* GET /health
Health ==
    /\ op = "idle"
    /\ op' = "health"
    /\ req' = EmptyMap
    /\ res' = route(health)
    /\ UNCHANGED <<cfg, clock, oidcVars>>

\* the response has gone out; the server keeps nothing of the request
Sent ==
    /\ op # "idle"
    /\ op' = "idle"
    /\ req' = Idle
    /\ res' = Idle
    /\ UNCHANGED <<cfg, clock, oidcVars>>

\* the requests that arrive: any of all when no request is waiting, and any
\* of few beside a request that waits
Arriving(all, few) == IF \A t \in Tasks : task[t].pc = "idle" THEN all ELSE few

\* With the default oidc_refresh_time_sec the deadline of the client stays
\* ahead of the clock, validate_code never reconnects, and nothing ever
\* stands against shared access: a request never waits for the lock.  One
\* request with any input waits for the provider at a time; beside it the
\* server answers /validate without cookies, /login, and /auth without a
\* usable query.
Next ==
    \/ Tick(Times)
    \/ \E t \in Tasks : ValidateArrives(t, Arriving(CookieHeaders, {None}),
                                        Arriving(OriginalUrlHeaders, {EmptyMap}))
    \/ \E t \in Tasks : RenewReturns(t, RenewAnswers, Times)
    \/ \E t \in Tasks :
          AuthArrives(t, Arriving(Queries, {query \in Queries : ~awaits_validate_code(query)}))
    \/ \E t \in Tasks : Check(t)
    \/ \E t \in Tasks : ExchangeReturns(t, ExchangeAnswers, Times)
    \/ \E t \in Tasks : LoginArrives(t, Queries)
    \/ Health
    \/ Sent

Spec == Init /\ [][Next]_vars

\* the same server in a deployment that renews, with any threshold
InitRenewal ==
    /\ cfg \in RenewingConfigs
    /\ clock \in {0}
    /\ op = "idle"
    /\ req = Idle
    /\ res = Idle
    /\ cache = startup_entry(cfg, clock)
    /\ lock = FreeLock
    /\ task = [t \in Tasks |-> IdleTask]

SpecRenewal == InitRenewal /\ [][Next]_vars

----------------------------------------------------------------------------
(* The server in deployments whose client expires within the time of the   *)
(* model: requests that reach the provider, MaxTasks of them at a time,    *)
(* around the RwLock of the cached client                                  *)

\* config.rs:18-19: oidc_refresh_time_sec is a u64
OidcConfigs ==
    {[c EXCEPT !.oidc_refresh_time_sec = r] :
        c \in {c \in RenewingConfigs : c.login_renew_seconds = -1 /\ c.login_cache_minutes = 1},
        r \in 0..MaxRefresh}

\* The requests, answers and clock readings of these runs.  cookies: a
\* session that these deployments renew whenever it is presented unexpired;
\* queries: a code and a return URL, which /login and /auth both accept;
\* answers: the provider grants with a bearer that does not expire, or
\* refuses; times: the time of startup and the times a minute and more after
\* it, when the deadline of startup has passed in every one of the
\* deployments.
OidcInputs ==
    [cookies |-> {Some((CookieName :>
                          CookieOf(JwtClaims(PublicUrl, EmptyMap, 0, SecondsPerMinute, Roles,
                                             Bearer("", Some("rt"), None, None)))))},
     queries |-> {Some([code |-> Some("code"), url |-> Some(ReturnUrl)])},
     answers |-> {Answer(granted, "valid", Bearer("at", Some("rt2"), None, Some("idt")),
                         Claims(Some([roles |-> Roles]), EmptyMap)) : granted \in BOOLEAN},
     times |-> {t \in Times : t = 0 \/ t >= SecondsPerMinute}]

InitOidc ==
    /\ cfg \in OidcConfigs
    /\ clock \in {0}
    /\ op = "idle"
    /\ req = Idle
    /\ res = Idle
    /\ cache = startup_entry(cfg, clock)
    /\ lock = FreeLock
    /\ task = [t \in Tasks |-> IdleTask]

NextOidc ==
    \/ Tick(OidcInputs.times)
    \/ \E t \in Tasks : ValidateArrives(t, OidcInputs.cookies, {EmptyMap})
    \/ \E t \in Tasks : RenewSend(t)
    \/ \E t \in Tasks : RenewReturns(t, OidcInputs.answers, OidcInputs.times)
    \/ \E t \in Tasks : AuthArrives(t, OidcInputs.queries)
    \/ \E t \in Tasks : Check(t)
    \/ \E t \in Tasks : Reconnect(t)
    \/ \E t \in Tasks : Recheck(t)
    \/ \E t \in Tasks : DiscoverFails(t)
    \/ \E t \in Tasks : Wake(t)
    \/ \E t \in Tasks : DiscoverSucceeds(t)
    \/ \E t \in Tasks : Install(t)
    \/ \E t \in Tasks : Reread(t)
    \/ \E t \in Tasks : Exchange(t)
    \/ \E t \in Tasks : ExchangeReturns(t, OidcInputs.answers, OidcInputs.times)
    \/ \E t \in Tasks : LoginArrives(t, OidcInputs.queries)
    \/ \E t \in Tasks : AuthUrl(t)
    \/ Health
    \/ Sent

SpecOidc == InitOidc /\ [][NextOidc]_vars

\* what a request does once it is under way, but for the attempts at
\* discovery
Proceed(t) ==
    \/ AuthUrl(t) \/ RenewSend(t) \/ Check(t) \/ Reconnect(t) \/ Recheck(t) \/ Wake(t)
    \/ Install(t) \/ Reread(t) \/ Exchange(t)
    \/ RenewReturns(t, OidcInputs.answers, OidcInputs.times)
    \/ ExchangeReturns(t, OidcInputs.answers, OidcInputs.times)

\* the runtime polls every task that can proceed, the provider answers every
\* token request, responses go out, and discovery, tried again and again,
\* succeeds in the end.  A task takes its steps between the responses of
\* the others, however many of them go out: a response on its way holds no
\* task up for good.
SpecOidcLive ==
    /\ InitOidc
    /\ [][NextOidc]_vars
    /\ WF_vars(Sent)
    /\ \A t \in Tasks : SF_vars(Proceed(t))
    /\ \A t \in Tasks : SF_vars(DiscoverSucceeds(t))

----------------------------------------------------------------------------
(* The policy resolver on its own: Config::customized and                  *)
(* Config::uncustomized applied to deployments of every rule list          *)

Rule(filter, required_roles, bypass) ==
    [filter |-> filter, config |-> [required_roles |-> required_roles, bypass |-> bypass]]

\* customization rules, one for each predicate of EndpointFilter and more
RulePool ==
    {Rule(AnyFilter, <<"user">>, FALSE),
     Rule([AnyFilter EXCEPT !.hostname = Some("a.test")], <<"admin">>, FALSE),
     Rule([AnyFilter EXCEPT !.hostname_regex = Some({"b.test"})], <<"user", "admin", "user">>, FALSE),
     Rule([AnyFilter EXCEPT !.path = Some(PathAdmin)], <<>>, TRUE),
     Rule([AnyFilter EXCEPT !.path_prefix = Some(PathAdmin)], <<"admin">>, FALSE),
     Rule([AnyFilter EXCEPT !.path_regex = Some({PathAdminX})], <<>>, TRUE),
     Rule([AnyFilter EXCEPT !.hostname = Some("b.test"), !.path_prefix = Some(PathAdmin)],
          <<"admin", "admin">>, TRUE)}

PolicyConfigs ==
    LET base == CHOOSE c \in Configs : TRUE
    IN {[base EXCEPT !.required_roles = global, !.customizations = customs] :
            global \in {<<>>, <<"user">>, <<"user", "admin", "user">>},
            customs \in UNION {[1..n -> RulePool] : n \in 0..MaxRules}}

InitPolicy ==
    /\ cfg \in PolicyConfigs
    /\ clock \in {0}
    /\ op = "idle"
    /\ req = Idle
    /\ res = Idle
    /\ Unobserved

\* a caller with a request context resolves the policy of (host, path)
Customized ==
    /\ op = "idle"
    /\ \E host \in {"a.test", "b.test"}, path \in {PathRoot, PathAdmin, PathAdminX} :
         /\ req' = [host |-> host, path |-> path]
         /\ res' = Config_customized(cfg, host, path)
    /\ op' = "customized"
    /\ UNCHANGED <<cfg, clock, oidcVars>>

\* a caller without a request context
Uncustomized ==
    /\ op = "idle"
    /\ req' = Idle
    /\ res' = Config_uncustomized(cfg)
    /\ op' = "uncustomized"
    /\ UNCHANGED <<cfg, clock, oidcVars>>

\* the function has returned to its caller, which keeps nothing of the call
Returned ==
    /\ op # "idle"
    /\ op' = "idle"
    /\ req' = Idle
    /\ res' = Idle
    /\ UNCHANGED <<cfg, clock, oidcVars>>

SpecPolicy == InitPolicy /\ [][Customized \/ Uncustomized \/ Returned]_vars

----------------------------------------------------------------------------
(* The cookie codec on its own: compress and decompress applied to the     *)
(* text of signed tokens and of cookie values                              *)

\* the payload of a signed session: the compact JSON that serde_json writes
\* for JwtClaims, its fields in the order of their declaration
\* (jwt.rs:12-19).  claims is the sequence of the map's entries in the order
\* the map yields them.  The bearer is flattened: its members are written
\* into the same object after roles, access_token, refresh_token, expires
\* and id_token (the members the handlers use: auth.rs:47-59,
\* validate.rs:35-53), an absent one as null
payload_json(issuer, claims, iss, exp, roles, bearer) ==
    LET \* a string: between quotation marks, with the quotation mark, the
        \* reverse solidus and the control characters escaped, so that the
        \* text written has no byte below 0x20
        json_string(text) ==
            LET hex(d) == IF d < 10 THEN 48 + d ELSE 87 + d
                escaped(b) ==
                    IF b = 34 THEN <<92, 34>>
                    ELSE IF b = 92 THEN <<92, 92>>
                    ELSE IF b = 8 THEN <<92, 98>>
                    ELSE IF b = 9 THEN <<92, 116>>
                    ELSE IF b = Newline THEN <<92, 110>>
                    ELSE IF b = 12 THEN <<92, 102>>
                    ELSE IF b = 13 THEN <<92, 114>>
                    ELSE IF b < 32 THEN <<92, 117, 48, 48, hex(b \div 16), hex(b % 16)>>
                    ELSE <<b>>
            IN <<34>> \o Flatten([i \in 1..Len(text) |-> escaped(text[i])]) \o <<34>>
        \* an i64 that is not negative: its decimal digits
        RECURSIVE json_number(_)
        json_number(n) ==
            IF n < 10 THEN <<48 + n>> ELSE json_number(n \div 10) \o <<48 + (n % 10)>>
        \* None: null
        json_null == <<110, 117, 108, 108>>
        optional_string(option) ==
            IF is_some(option) THEN json_string(unwrap(option)) ELSE json_null
        optional_number(option) ==
            IF is_some(option) THEN json_number(unwrap(option)) ELSE json_null
        \* the members of a map or a struct, each a name and the text of a
        \* value
        json_members(members) ==
            join([i \in 1..Len(members) |->
                     json_string(members[i][1]) \o <<58>> \o members[i][2]], 44)
        json_object(members) == <<123>> \o json_members(members) \o <<125>>
        \* a Vec<String>
        json_array(items) ==
            <<91>> \o join([i \in 1..Len(items) |-> json_string(items[i])], 44) \o <<93>>
        \* the names "issuer", "claims", "iss", "exp", "roles"
        name_issuer == <<105, 115, 115, 117, 101, 114>>
        name_claims == <<99, 108, 97, 105, 109, 115>>
        name_iss == <<105, 115, 115>>
        name_exp == <<101, 120, 112>>
        name_roles == <<114, 111, 108, 101, 115>>
        \* and "access_token", "refresh_token", "expires", "id_token"
        name_access_token == <<97, 99, 99, 101, 115, 115, 95, 116, 111, 107, 101, 110>>
        name_refresh_token == <<114, 101, 102, 114, 101, 115, 104, 95, 116, 111, 107, 101, 110>>
        name_expires == <<101, 120, 112, 105, 114, 101, 115>>
        name_id_token == <<105, 100, 95, 116, 111, 107, 101, 110>>
    IN json_object(<<
           <<name_issuer, json_string(issuer)>>,
           <<name_claims, json_object([i \in 1..Len(claims) |->
                                          <<claims[i][1], json_string(claims[i][2])>>])>>,
           <<name_iss, json_number(iss)>>,
           <<name_exp, json_number(exp)>>,
           <<name_roles, json_array(roles)>>,
           <<name_access_token, json_string(bearer.access_token)>>,
           <<name_refresh_token, optional_string(bearer.refresh_token)>>,
           <<name_expires, optional_number(bearer.expires)>>,
           <<name_id_token, optional_string(bearer.id_token)>> >>)

\* what JwtClaims::sign returns for the session given to the codec: the
\* header, the payload and the signature as base64url, with dots between
\* them
SignedTokens ==
    LET TokenText(header, payload, signature) ==
            base64_encode(header) \o <<Dot>> \o base64_encode(payload)
                \o <<Dot>> \o base64_encode(signature)
        \* the header sign_with_key writes for the key of config.rs:185, an
        \* HMAC-SHA256 key: {"alg":"HS256"}
        header == <<123, 34, 97, 108, 103, 34, 58, 34, 72, 83, 50, 53, 54, 34, 125>>
        name == <<110, 97, 109, 101>>
        \* the refresh token "rt"
        rt == <<114, 116>>
        \* an HMAC-SHA256 has SignatureBytes bytes, any of which may be a
        \* newline byte: a value with a newline byte at its first, at a
        \* middle and at its last place
        signature ==
            [i \in 1..SignatureBytes |->
                IF i \in {1, SignatureBytes \div 2, SignatureBytes}
                THEN Newline ELSE (37 * i + 11) % 256]
        \* the session, as auth.rs:55-59 and validate.rs:42-47 leave its
        \* bearer (the access token emptied, the ID token taken): a single
        \* claim, a name of two lines ("a" and "b" with a newline between
        \* them), and a refresh token that does not expire
        claims == << <<name, <<97, Newline, 98>>>> >>
        bearer == Bearer(<<>>, Some(rt), None, None)
    \* it is issued by https://a/ at 0 until 60 to a user of the role "r"
    IN {TokenText(header,
                  payload_json(<<104, 116, 116, 112, 115, 58, 47, 47, 97, 47>>, claims, 0, 60,
                               <<<<114>>>>, bearer),
                  signature)}

\* the token of test_jwtc (jwtc.rs:39), 116 bytes that deflate does not make
\* shorter
TEST_TOKEN ==
    <<101, 121, 74, 104, 98, 71, 99, 105, 79, 105, 74, 73, 85, 122, 73, 49,
      78, 105, 73, 115, 73, 110, 82, 53, 99, 67, 73, 54, 73, 107, 112, 88,
      86, 67, 74, 57, 46, 101, 121, 74, 122, 100, 87, 73, 105, 79, 105, 73,
      120, 77, 106, 77, 48, 78, 84, 89, 51, 79, 68, 107, 119, 73, 105, 119,
      105, 98, 109, 70, 116, 90, 83, 73, 54, 73, 107, 112, 118, 97, 71, 52,
      103, 82, 71, 57, 108, 73, 105, 119, 105, 97, 87, 70, 48, 73, 106, 111,
      120, 78, 84, 69, 50, 77, 106, 77, 53, 77, 68, 73, 121, 102, 81, 46, 83,
      102, 108, 75, 120, 119, 82, 74, 83, 77, 101, 75, 75, 70, 50, 81, 84,
      52, 102, 119, 112, 77, 101, 74, 102, 51, 54, 80, 79, 107, 54, 121, 74,
      86, 95, 97, 100, 81, 115, 115, 119, 53, 99>>

\* cookie values as a client may send them: the compressed form of any
\* body, one of them between white space; the empty value; every stream cut
\* short; streams with a wrong header, a wrong checksum and a byte after the
\* checksum; a stream whose match begins before its output, one that
\* announces more codes than there are, one whose code-length code is not
\* complete and one whose literal is coded by no code; text that is not
\* base64url,
\* base64url of a length no byte string has, base64url with a broken last
\* symbol, and padded base64url
PresentedValues ==
    LET \* the stream of a three-segment body, to cut short and to damage
        SampleStream == zlib_encode(<<123, Newline, 123, Newline, 123>>)
        \* the bodies of at most n bytes, of newlines and '{'
        BytesUpTo(n) == UNION {[1..k -> {Newline, 123}] : k \in 0..n}
    IN {base64_encode(zlib_encode(body)) : body \in BytesUpTo(MaxBody)}
       \cup {base64_encode(SubSeq(SampleStream, 1, k)) : k \in 0..Len(SampleStream)}
       \cup {<<32>> \o base64_encode(SampleStream) \o <<9>>,
             <<8195>> \o base64_encode(SampleStream) \o <<12288>>,
             base64_encode(<<ZlibHeader, 218, 5, 0, 128, 128>>),
             base64_encode(<<ZlibHeader, 218, 5, 0, 128, 228, 127, 27>>),
             base64_encode(<<ZlibHeader, 123>>),
             base64_encode([SampleStream EXCEPT ![Len(SampleStream)] = (@ + 1) % 256]),
             base64_encode(SampleStream \o <<0>>),
             base64_encode(<<ZlibHeader, 218, 195, 244, 101, 68, 46>>),
             base64_encode(<<ZlibHeader, 218, 245, 0, 0>>),
             <<Dot, Dot>>,
             <<65, 66>>,
             <<65>>,
             <<65, 65, 65, Pad>>}

InitCodec ==
    /\ cfg \in {CHOOSE c \in Configs : TRUE}
    /\ clock \in {0}
    /\ op = "idle"
    /\ req = Idle
    /\ res = Idle
    /\ Unobserved

\* build_cookie compresses a token it has signed; test_jwtc compresses its
\* own
Compress ==
    /\ op = "idle"
    /\ \E jwt \in SignedTokens \cup {TEST_TOKEN} :
         /\ req' = [jwt |-> Some(jwt), value |-> None]
         /\ res' = jwtc_compress(jwt)
    /\ op' = "compress"
    /\ UNCHANGED <<cfg, clock, oidcVars>>

\* the cookie comes back as it was set
RoundTrip ==
    /\ op = "compress"
    /\ res.ok
    /\ req' = [req EXCEPT !.value = Some(res.val)]
    /\ res' = jwtc_decompress(res.val)
    /\ op' = "decompress"
    /\ UNCHANGED <<cfg, clock, oidcVars>>

\* validate decompresses whatever value the named cookie has
Decompress ==
    /\ op = "idle"
    /\ \E value \in PresentedValues :
         /\ req' = [jwt |-> None, value |-> Some(value)]
         /\ res' = jwtc_decompress(value)
    /\ op' = "decompress"
    /\ UNCHANGED <<cfg, clock, oidcVars>>

\* a client changes one bit of the cookie it was given and presents it
Tamper ==
    /\ op = "compress"
    /\ res.ok
    /\ \E i \in 1..Len(res.val), k \in 0..7 :
         LET \* the text with bit k of its character i changed
             flipped == [res.val EXCEPT ![i] = IF (@ \div 2^k) % 2 = 1
                                              THEN @ - 2^k ELSE @ + 2^k]
         IN /\ req' = [req EXCEPT !.value = Some(flipped)]
            /\ res' = jwtc_decompress(flipped)
    /\ op' = "tamper"
    /\ UNCHANGED <<cfg, clock, oidcVars>>

SpecCodec ==
    InitCodec /\ [][Compress \/ RoundTrip \/ Decompress \/ Tamper \/ Returned]_vars

----------------------------------------------------------------------------
(* What a finished /validate shows: read from the request and the answer   *)

Range(f) == {f[i] : i \in DOMAIN f}

\* the value of the named cookie, if the request carries it
PresentedCookie ==
    IF is_some(req.cookies) /\ CookieName \in DOMAIN unwrap(req.cookies)
    THEN Some(unwrap(req.cookies)[CookieName]) ELSE None

\* the cookie decodes, its signature verifies and its issuer is the public URL
Authentic ==
    /\ is_some(PresentedCookie)
    /\ unwrap(PresentedCookie).decodable
    /\ unwrap(PresentedCookie).token.key = JWT_KEY
    /\ unwrap(PresentedCookie).token.payload.issuer = cfg.public

Presented == unwrap(PresentedCookie).token.payload

Policy == request_policy(cfg, req.headers_in)

\* the headers of a response whose handler returned these
Routed(headers) == route(Response(StatusOk, headers, "none", <<>>)).headers

\* a non-bypassed /validate of an authentic session: the validator ran
Judged == op = "validate" /\ ~Policy.bypass /\ Authentic

PastExpiry ==
    \/ req.now > Presented.exp
    \/ req.now > Presented.iss + cfg.login_cache_minutes * 60

LacksRoles == ~(Range(Policy.required_roles) \subseteq Presented.roles)

PastThreshold ==
    /\ cfg.refresh_tokens
    /\ is_some(Presented.bearer.refresh_token)
    /\ req.now > Presented.iss + cfg.login_renew_seconds

RenewCalls == Cardinality({i \in DOMAIN res.calls : res.calls[i] = "renew"})

\* the provider refused the grant or returned no usable ID token
Refused(answer) == ~answer.granted \/ answer.id_token # "valid"

----------------------------------------------------------------------------
(* C1 -- C10 *)

\* C1 (as stated): every call of the validator yields one of Expired,
\* Forbidden, Renewed, Pass, and makes at most one renewal call.
C1_FourOutcomes ==
    Judged =>
        /\ res.outcome \in {"Expired", "Forbidden", "Renewed", "Pass"}
        /\ RenewCalls <= 1

\* C1 (amended): every call of the validator yields one of Expired, Forbidden,
\* Renewed, Pass or, only when its single renewal call fails, an error; it makes
\* at most one renewal call, and exactly one when it answers Renewed or fails.
C1_OutcomeOrRenewalError ==
    Judged =>
        /\ res.outcome \in {"Expired", "Forbidden", "Renewed", "Pass", "Err"}
        /\ RenewCalls <= 1
        /\ res.outcome = "Err" => RenewCalls = 1 /\ Refused(unwrap(req.answer))
        /\ res.outcome = "Renewed" => RenewCalls = 1 /\ ~Refused(unwrap(req.answer))
        /\ res.outcome \in {"Expired", "Forbidden", "Pass"} => RenewCalls = 0

C1_Witness ==
    /\ Judged
    /\ res.outcome = "Err"
    /\ RenewCalls = 1

\* C2: the validator answers Expired exactly when now > exp or
\* now > iss + cache lifetime (not at the bounds themselves); an expired session
\* is answered 401 whatever its roles and refresh credential, with no renewal call.
C2_ExpiredFirst ==
    Judged =>
        /\ res.outcome = "Expired" <=> PastExpiry
        /\ PastExpiry => res.status = 401 /\ RenewCalls = 0 /\ res.headers = Routed(EmptyMap)

C2_Witness ==
    /\ Judged
    /\ PastExpiry /\ LacksRoles /\ PastThreshold
    /\ res.status = 401

\* C3: /validate answers 403 exactly for a non-bypassed request with an
\* authentic, unexpired session whose roles do not include every required role.
C3_ForbiddenIffRolesMissing ==
    op = "validate" =>
        (res.status = 403 <=> (Judged /\ ~PastExpiry /\ LacksRoles))

C3_Witness ==
    /\ Judged /\ ~PastExpiry /\ LacksRoles
    /\ Presented.roles # {}
    /\ res.status = 403

\* C4: the validator calls the provider exactly when the session is neither
\* expired nor forbidden, refresh is enabled, the session has a refresh
\* credential and now > iss + renew threshold; otherwise an unexpired, permitted
\* session passes.
C4_RenewIffDue ==
    Judged =>
        /\ RenewCalls > 0 <=> (~PastExpiry /\ ~LacksRoles /\ PastThreshold)
        /\ (~PastExpiry /\ ~LacksRoles /\ ~PastThreshold) =>
              /\ res.outcome = "Pass"
              /\ res.status = 200
              /\ res.calls = <<"decompress", "verify">>

C4_Witness ==
    /\ Judged
    /\ RenewCalls = 1
    /\ res.outcome = "Renewed"

\* C5: a failed renewal makes the whole /validate fail with 401 and no headers,
\* although the presented session was unexpired and permitted; no failure of
\* the validation is answered 200.
C5_RenewalFailureUnauthorized ==
    op = "validate" =>
        /\ (RenewCalls > 0 /\ Refused(unwrap(req.answer))) =>
              res.status = 401 /\ res.headers = Routed(EmptyMap)
        /\ res.outcome = "Err" => res.status = 401 /\ res.headers = Routed(EmptyMap)

C5_Witness ==
    /\ Judged /\ ~PastExpiry /\ ~LacksRoles
    /\ RenewCalls = 1 /\ Refused(unwrap(req.answer))
    /\ res.status = 401

\* the cookie a finished /validate or /auth sets, and the session signed into it
MintedCookie ==
    IF op \in {"validate", "auth"} /\ "set-cookie" \in DOMAIN res.headers
    THEN Some(res.headers["set-cookie"]) ELSE None

Minted == unwrap(MintedCookie).value.token.payload

\* the bearer the provider returned to the handler that minted
UpstreamBearer == unwrap(req.answer).bearer

\* C6: every rejection of a non-bypassed /validate caused by the cookie is
\* a 401: no Cookie header, no named cookie, a value that does not decode, a
\* signature that does not verify, a foreign issuer, an expired session.
C6_CookieRejectionsUnauthorized ==
    (op = "validate" /\ ~Policy.bypass) =>
        ((~Authentic \/ PastExpiry) => res.status = 401)

\* C7: under a policy with bypass, /validate answers 200 whatever the cookie
\* and returns an empty header map, so that the response has no success
\* header, no claim header and no Set-Cookie; it neither decodes, verifies
\* nor renews.
C7_BypassEmptyHeaderSet ==
    (op = "validate" /\ Policy.bypass) =>
        /\ res.status = 200
        /\ res.handler_headers = EmptyMap
        /\ res.headers = Routed(EmptyMap)
        /\ DOMAIN res.headers \cap ({cfg.success_header, "set-cookie"}
                                      \cup DOMAIN cfg.header_claims) = {}
        /\ res.calls = <<>>

C7_Witness ==
    /\ op = "validate" /\ Policy.bypass
    /\ is_some(PresentedCookie) /\ ~unwrap(PresentedCookie).decodable
    /\ res.status = 200
    /\ res.handler_headers = EmptyMap

\* C8: every session signed into a cookie, by /auth or by a renewal, has an
\* empty access token and no ID token, and no refresh credential unless
\* refresh_tokens is set.
C8_TokensStripped ==
    is_some(MintedCookie) =>
        /\ Minted.bearer.access_token = ""
        /\ Minted.bearer.id_token = None
        /\ ~cfg.refresh_tokens => Minted.bearer.refresh_token = None

C8_Witness ==
    /\ op = "validate"
    /\ is_some(MintedCookie)
    /\ is_some(UpstreamBearer.id_token)
    /\ UpstreamBearer.access_token # ""

\* C9: every minted session has exp >= iss.
C9_ExpiryNotBeforeIssue ==
    is_some(MintedCookie) => Minted.exp >= Minted.iss

\* C10: the max age of a minted session is the cache lifetime when
\* honor_token_expiry is off or the upstream has no expiry, and otherwise the
\* smaller of the cache lifetime and upstream expiry - now (now read when the
\* max age is computed); the cookie's Max-Age and exp - iss both equal it.
C10_MaxAge ==
    is_some(MintedCookie) =>
        LET lifetime == cfg.login_cache_minutes * 60
            remaining == unwrap(UpstreamBearer.expires) - req.now2
            expected == IF cfg.honor_token_expiry /\ is_some(UpstreamBearer.expires)
                        THEN (IF remaining < lifetime THEN remaining ELSE lifetime)
                        ELSE lifetime
        IN /\ unwrap(MintedCookie).max_age = expected
           /\ Minted.exp - Minted.iss = expected

C10_Witness ==
    /\ op = "auth"
    /\ is_some(MintedCookie)
    /\ cfg.honor_token_expiry
    /\ is_some(UpstreamBearer.expires)
    /\ unwrap(UpstreamBearer.expires) - req.now2 < cfg.login_cache_minutes * 60
    /\ unwrap(UpstreamBearer.expires) > req.now2
    /\ req.now2 > req.now1

----------------------------------------------------------------------------
(* C11: renewals and the issue time *)

\* a /validate that answered with a renewed session
RenewedSession == op = "validate" /\ is_some(MintedCookie)

\* C11 as stated: with every configured renewal threshold, a renewed session
\* is issued strictly later than the session that was presented.
C11_RenewalAdvancesIssue ==
    RenewedSession => Minted.iss > Presented.iss

\* C11: with a renewal threshold of zero seconds or more, and a clock that
\* was not set back while the provider was asked, a renewed session is
\* issued strictly later than the session that was presented, so the issue
\* times along a chain of renewals strictly increase.
C11_RenewalAdvancesIssueFromZero ==
    (RenewedSession /\ cfg.login_renew_seconds >= 0 /\ req.now <= req.now1)
        => Minted.iss > Presented.iss

C11_Witness ==
    /\ RenewedSession
    /\ cfg.login_renew_seconds >= 0
    /\ req.now < req.now1
    /\ Minted.iss = req.now1
    /\ Presented.iss + cfg.login_renew_seconds < req.now

----------------------------------------------------------------------------
(* C14, C15: the policy resolver *)

Orders(n) == {f \in [1..n -> 1..n] : \A i, j \in 1..n : f[i] = f[j] => i = j}

\* the rule list of the deployment in another order
Reordered(f) == [i \in DOMAIN cfg.customizations |-> cfg.customizations[f[i]]]

\* the filter's predicates, each either unset or true of (host, path)
Holds(filter, host, path) ==
    /\ filter.hostname \in {None, Some(host)}
    /\ filter.hostname_regex = None \/ \E re \in filter.hostname_regex : host \in re
    /\ filter.path \in {None, Some(path)}
    /\ filter.path_prefix = None
       \/ \E n \in 0..Len(path) : filter.path_prefix = Some(SubSeq(path, 1, n))
    /\ filter.path_regex = None \/ \E re \in filter.path_regex : path \in re

\* the rules of the deployment that apply to the resolved (host, path)
Applying == {i \in DOMAIN cfg.customizations : Holds(cfg.customizations[i].filter, req.host, req.path)}

\* C14: the resolved policy has strictly ascending (sorted, duplicate-free)
\* required roles, and the same deployment with its rules in any other order,
\* or with any applying rule repeated, resolves to the same roles and bypass.
C14_OrderIndependent ==
    op = "customized" =>
        /\ \A i, j \in DOMAIN res.required_roles :
              i < j => RoleRank[res.required_roles[i]] < RoleRank[res.required_roles[j]]
        /\ \A f \in Orders(Len(cfg.customizations)) :
              Config_customized([cfg EXCEPT !.customizations = Reordered(f)],
                                req.host, req.path) = res
        /\ \A i \in Applying, at \in 0..Len(cfg.customizations) :
              Config_customized(
                  [cfg EXCEPT !.customizations =
                      SubSeq(cfg.customizations, 1, at) \o <<cfg.customizations[i]>>
                      \o SubSeq(cfg.customizations, at + 1, Len(cfg.customizations))],
                  req.host, req.path) = res

\* two applying rules whose roles arrive in descending order, one role twice
C14_Witness ==
    /\ op = "customized"
    /\ Len(cfg.customizations) = 2
    /\ Applying = {1, 2}
    /\ cfg.required_roles = <<>>
    /\ cfg.customizations[1].config.required_roles = <<"user">>
    /\ cfg.customizations[2].config.required_roles = <<"admin", "admin">>
    /\ res.required_roles = <<"admin", "user">>
    /\ res.bypass

\* C15: with a request context the resolved roles are, as a set, the global
\* roles and the roles of exactly the rules whose set predicates all hold, and
\* bypass is the OR of those rules' bypass flags (a filter with no predicate
\* applies everywhere); without a request context the roles are the global
\* roles and bypass is false.
C15_ResolvedPolicy ==
    /\ op = "customized" =>
          /\ Range(res.required_roles)
               = Range(cfg.required_roles)
                 \cup UNION {Range(cfg.customizations[i].config.required_roles) : i \in Applying}
          /\ res.bypass <=> \E i \in Applying : cfg.customizations[i].config.bypass
          /\ \A i \in DOMAIN cfg.customizations :
                cfg.customizations[i].filter = AnyFilter => i \in Applying
    /\ op = "uncustomized" =>
          /\ Range(res.required_roles) = Range(cfg.required_roles)
          /\ ~res.bypass

\* one rule applies and sets bypass, another does not apply and would add a role
C15_Witness ==
    /\ op = "customized"
    /\ Len(cfg.customizations) = 2
    /\ Applying = {1}
    /\ cfg.customizations[1].config.bypass
    /\ cfg.customizations[2].filter.hostname # None
    /\ cfg.customizations[2].config.required_roles = <<"admin">>
    /\ res.required_roles = <<>>
    /\ res.bypass

----------------------------------------------------------------------------
(* C12, C13: the cookie codec *)

\* the dot-separated segments of a text
Segments(text) == Cardinality({i \in 1..Len(text) : text[i] = Dot}) + 1

\* C12: a signed three-segment token that is compressed and then
\* decompressed comes back byte for byte, also when the decoded bytes of a
\* segment contain newline bytes and when a value of the claims map in the
\* payload has a newline.
C12_RoundTrip ==
    (op = "decompress" /\ is_some(req.jwt)) => res = Ok(unwrap(req.jwt))

\* the token of a session with a claim of two lines (the newline is
\* written as a reverse solidus and an n in the payload), whose signature has
\* newline bytes, came back
C12_Witness ==
    /\ op = "decompress"
    /\ is_some(req.jwt)
    /\ unwrap(req.jwt) \in SignedTokens
    /\ LET segments == split(unwrap(req.jwt), Dot)
           payload == base64_decode(segments[2]).val
           signature == base64_decode(segments[3]).val
       IN /\ \E i \in 1..(Len(payload) - 1) : payload[i] = 92 /\ payload[i + 1] = 110
          /\ \E i \in 1..Len(signature) : signature[i] = Newline
    /\ res = Ok(unwrap(req.jwt))

\* C13: decompress never returns a text of fewer than three dot-separated
\* segments: it fails when the inflated bytes split into fewer than three
\* pieces, as it does when base64url decoding or inflating fails.
C13_ThreeSegmentsOrError ==
    (op = "decompress" /\ res.ok) => Segments(res.val) >= 3

----------------------------------------------------------------------------
(* C20: a cookie with one bit changed *)

\* C20: a cookie value made by compress from a signed token, with any one
\* of its bits flipped, is rejected: decompress fails, or what it returns
\* is not the token that was signed, so that the signature does not verify.
C20_TamperRejected ==
    op = "tamper" => (~res.ok \/ res.val # unwrap(req.jwt))

----------------------------------------------------------------------------
(* C19: /login and /auth *)

\* the return URL of the request's query, if the query has one that parses
ReturnUrlOf(query) ==
    IF is_some(query) /\ is_some(unwrap(query).url) /\ unwrap(unwrap(query).url).parses
    THEN unwrap(query).url ELSE None

\* the callback of this deployment for a return URL: the public URL, the
\* "auth" path segment and the return URL as the "url" query pair
CallbackFor(url) == [base |-> cfg.public, segment |-> "auth", url |-> url]

\* C19: /login answers 400 when the query or its url is missing or does not
\* parse and otherwise 307 to the provider with the callback of the return
\* URL; /auth sends the provider the same callback for the same return URL,
\* answers 401 on every failure and 307 with Set-Cookie exactly when the
\* exchange and the ID token validation succeed.
C19_LoginAndAuth ==
    /\ op = "login" =>
          IF is_some(ReturnUrlOf(req.query))
          THEN /\ res.status = 307
               /\ res.headers["location"].redirect_uri = CallbackFor(unwrap(ReturnUrlOf(req.query)))
          ELSE /\ res.status = 400
               /\ res.headers = Routed(EmptyMap)
    /\ op = "auth" =>
          LET exchanging == is_some(ReturnUrlOf(req.query)) /\ is_some(unwrap(req.query).code)
              succeeded == exchanging /\ ~Refused(unwrap(req.answer))
          IN /\ res.redirect_uri = (IF exchanging
                                    THEN Some(CallbackFor(unwrap(ReturnUrlOf(req.query))))
                                    ELSE None)
             /\ succeeded => /\ res.status = 307
                             /\ DOMAIN res.headers
                                  = {"location", "set-cookie"} \cup DOMAIN Routed(EmptyMap)
                             /\ res.headers["location"] = unwrap(ReturnUrlOf(req.query))
             /\ ~succeeded => /\ res.status = 401
                              /\ res.headers = Routed(EmptyMap)

\* a /login that was redirected to the provider
C19_Witness ==
    /\ op = "login"
    /\ res.status = 307
    /\ res.headers["location"].redirect_uri.url = ReturnUrl

----------------------------------------------------------------------------
(* C16 -- C18: the provider cache among concurrent tasks *)

Discovering(t) == task[t].pc \in {"vc_discover", "vc_sleep", "vc_install"}

\* asked for shared access and not served yet
AwaitsRead(t) ==
    /\ task[t].pc \in {"au_read", "rn_read", "vc_read", "vc_read2"}
    /\ ~holds_read(lock, t)

\* C16: of the validate_code calls under way that found the same deadline
\* passed, at most one goes into discovery; the others skip it at the
\* second test.
C16_OneDiscoveryPerExpiry ==
    \A t, u \in Tasks :
        (t # u /\ is_some(task[t].seen) /\ task[t].seen = task[u].seen)
            => ~(task[t].discovered /\ task[u].discovered)

\* C17: while a task is in discovery, no other task waits for shared
\* access.
C17_ReadersNotHeldUp ==
    \A t, u \in Tasks : Discovering(t) => ~AwaitsRead(u)

\* C18: a task in discovery holds exclusive access; a failed attempt leads
\* to the sleep and another attempt, never out of validate_code, and leaves
\* the cache entry as it was; and every task in discovery gets to send its
\* code, with exclusive access released.
C18_RetryUntilDiscovered ==
    /\ [](\A t \in Tasks : Discovering(t) => holds_write(lock, t))
    /\ [][\A t \in Tasks :
            (task[t].pc \in {"vc_discover", "vc_sleep"})
                => /\ task'[t].pc \in {"vc_discover", "vc_sleep", "vc_install"}
                   /\ cache' = cache]_vars
    /\ \A t \in Tasks :
          (task[t].pc = "vc_discover") ~> (task[t].pc = "vc_call" /\ ~holds_write(lock, t))

\* a task sleeps after a failed attempt while another waits for the lock
C18_Witness ==
    \E t, u \in Tasks :
        /\ task[t].pc = "vc_sleep"
        /\ holds_write(lock, t)
        /\ task[u].pc = "vc_write"

----------------------------------------------------------------------------
(* C21, C24, C25: the deadline of the cache entry and the lock protocol *)

\* the step in which task t installs a new entry
Installs(t) == task[t].pc = "vc_install" /\ task'[t].pc = "vc_released"

\* C21: the deadline of an installed entry is the time of installation plus
\* oidc_refresh_time_sec, and with a positive interval the entry has not
\* expired at the moment it is installed.
C21_DeadlineFromInstallation ==
    [][\A t \in Tasks :
          Installs(t) =>
              /\ cache'.deadline = clock + cfg.oidc_refresh_time_sec
              /\ (cfg.oidc_refresh_time_sec > 0 => ~(cache'.deadline < clock))]_vars

\* t has asked for access of this mode and still waits for it
Waits(t, mode) ==
    \E i \in 1..Len(lock.queue) : lock.queue[i] = [task |-> t, mode |-> mode]

\* where a validate_code call can go next
ExchangeOrder(pc) ==
    CASE pc = "vc_read" -> {"vc_dropped", "vc_call"}
      [] pc = "vc_dropped" -> {"vc_write"}
      [] pc = "vc_write" -> {"vc_discover", "vc_released"}
      [] pc = "vc_discover" -> {"vc_sleep", "vc_install"}
      [] pc = "vc_sleep" -> {"vc_discover"}
      [] pc = "vc_install" -> {"vc_released"}
      [] pc = "vc_released" -> {"vc_read2"}
      [] pc = "vc_read2" -> {"vc_call"}
      [] pc = "vc_call" -> {"idle"}
      [] OTHER -> {"au_read", "rn_read", "rn_call", "vc_read", "idle"}

\* C24: no task waits for exclusive access while it holds shared access;
\* validate_code asks for shared access, drops it, asks for exclusive
\* access, drops it and asks for shared access again, in this order and
\* never with two requests at a time; and, discovery and the provider's
\* answers arriving, every task that waits for the lock is served.
C24_NoDeadlock ==
    /\ [](\A t \in Tasks : Waits(t, "write") => ~holds_read(lock, t))
    /\ [](\A t \in Tasks :
            /\ (task[t].pc \in {"vc_read", "vc_read2", "vc_call"})
                   => /\ Waits(t, "read") \/ holds_read(lock, t)
                      /\ ~Waits(t, "write") /\ ~holds_write(lock, t)
            /\ (task[t].pc \in {"vc_write", "vc_discover", "vc_sleep", "vc_install"})
                   => /\ Waits(t, "write") \/ holds_write(lock, t)
                      /\ ~Waits(t, "read") /\ ~holds_read(lock, t)
            /\ (task[t].pc \in {"idle", "vc_dropped", "vc_released"})
                   => /\ ~Waits(t, "read") /\ ~holds_read(lock, t)
                      /\ ~Waits(t, "write") /\ ~holds_write(lock, t))
    /\ [][\A t \in Tasks :
            task'[t].pc # task[t].pc => task'[t].pc \in ExchangeOrder(task[t].pc)]_vars
    /\ \A t \in Tasks :
          (Waits(t, "read") \/ Waits(t, "write"))
              ~> (holds_read(lock, t) \/ holds_write(lock, t))

\* a validate_code call waits for exclusive access behind a renewal that
\* holds shared access while the provider answers
C24_Witness ==
    \E t, u \in Tasks :
        /\ task[t].pc = "vc_write"
        /\ Waits(t, "write")
        /\ task[u].pc = "rn_call"
        /\ holds_read(lock, u)

\* C25: a step of an auth_url or renew call leaves the cache entry as it is
\* and ends or goes on with the call, whether the deadline has passed or
\* not; and the entry is replaced only in validate_code, by a call that read
\* the clock after the deadline of the entry it replaces.
C25_OnlyExchangeRefreshes ==
    [][/\ \A t \in Tasks :
            (task[t].pc \in {"au_read", "rn_read", "rn_call"} /\ task'[t] # task[t])
                => /\ cache' = cache
                   /\ task'[t].pc \in {"idle", "rn_call"}
       /\ (cache' # cache)
            => \E t \in Tasks :
                  /\ Installs(t)
                  /\ cache.deadline < task[t].now]_vars

\* a renewal is sent with the startup entry after its deadline has passed
C25_Witness ==
    \E t \in Tasks :
        /\ task[t].pc = "rn_call"
        /\ holds_read(lock, t)
        /\ cache.deadline < clock
        /\ cache.client = 0

----------------------------------------------------------------------------
(* C22, C23, C26: what a renewal keeps, whom it lets through, and when *)

\* the roles in the ID-token claims of the provider's answer
FreshRoles ==
    LET realm_access == unwrap(req.answer).claims.realm_access
    IN IF realm_access = None THEN {} ELSE unwrap(realm_access).roles

\* the headers /validate answers for a session it accepts
AcceptedHeaders(session) ==
    (cfg.success_header :> "true")
    @@ (IF "email" \in DOMAIN session.claims
        THEN ("x-email" :> session.claims["email"]) ELSE EmptyMap)

\* C22: a renewed session has the issuer and the claims of the presented
\* one and exactly the roles of the renewal's ID-token claims (none when the
\* provider names none), and the answer carries it in a Set-Cookie; only
\* the upstream bearer, roles, iss and exp differ.  A session that passes is
\* answered with the headers of the presented session and no Set-Cookie.
C22_RenewalFrame ==
    Judged =>
        /\ res.outcome = "Renewed" =>
              /\ is_some(MintedCookie)
              /\ Minted.issuer = Presented.issuer
              /\ Minted.claims = Presented.claims
              /\ Minted.roles = FreshRoles
              /\ DOMAIN Minted = DOMAIN Presented
              /\ \A f \in DOMAIN Minted \ {"bearer", "roles", "iss", "exp"} :
                    Minted[f] = Presented[f]
              /\ res.headers = Routed(AcceptedHeaders(Presented)
                                         @@ ("set-cookie" :> unwrap(MintedCookie)))
        /\ res.outcome = "Pass" =>
              /\ ~is_some(MintedCookie)
              /\ res.headers = Routed(AcceptedHeaders(Presented))

\* a session with roles is renewed by an answer that names no roles
C22_Witness ==
    /\ Judged
    /\ res.outcome = "Renewed"
    /\ Presented.roles # {}
    /\ unwrap(req.answer).claims.realm_access = None
    /\ Minted.roles = {}

\* C23: when /validate answers 200 with the success header, the session it
\* accepted has every role the policy of the request requires, and so has
\* the session of the cookie it sets on a renewal.
C23_AcceptedHasRequiredRoles ==
    (/\ op = "validate"
     /\ res.status = 200
     /\ cfg.success_header \in DOMAIN res.headers) =>
        /\ Range(Policy.required_roles) \subseteq Presented.roles
        /\ is_some(MintedCookie) => Range(Policy.required_roles) \subseteq Minted.roles

\* the session can never be renewed: the threshold is not below the cache
\* lifetime, or the session ends before its threshold
NoRenewalWindow ==
    \/ cfg.login_renew_seconds >= cfg.login_cache_minutes * 60
    \/ Presented.exp <= Presented.iss + cfg.login_renew_seconds

\* C26: the provider is asked to renew a session only at a time now with
\* iss + login_renew_seconds < now <= min(exp, iss + cache lifetime); a
\* session whose threshold is not below the cache lifetime, or whose exp is
\* not after iss + threshold, is never renewed at any time: it passes (its
\* roles permitting) until it is expired; and a session expired at one time
\* is expired at every later time.
C26_RenewalWindow ==
    Judged =>
        /\ RenewCalls > 0 =>
              /\ Presented.iss + cfg.login_renew_seconds < req.now
              /\ req.now <= Presented.exp
              /\ req.now <= Presented.iss + cfg.login_cache_minutes * 60
        /\ NoRenewalWindow =>
              /\ RenewCalls = 0
              /\ res.outcome \in {"Pass", "Forbidden", "Expired"}
              /\ ~LacksRoles => res.outcome = (IF PastExpiry THEN "Expired" ELSE "Pass")
        /\ res.outcome = "Expired" =>
              \A n \in Times : n >= req.now => is_expired(cfg, Presented, n)

\* a session with a refresh token, past its threshold, in a deployment whose
\* threshold is not below the cache lifetime: expired by the cache lifetime
\* before it could be renewed
C26_Witness ==
    /\ Judged
    /\ cfg.login_renew_seconds >= cfg.login_cache_minutes * 60
    /\ PastThreshold
    /\ ~LacksRoles
    /\ req.now <= Presented.exp
    /\ res.outcome = "Expired"

====
